---------------------------- MODULE Spec2Model ----------------------------
(***************************************************************************)
(* Model of the ESP32 listener (src/esp_listener_ota.py): the per-port     *)
(* handler (line framing, pairing handshake, OTA/CONFIG status tracking,   *)
(* answer relay), the OTA dispatcher and the device monitor (supervisor).  *)
(*                                                                         *)
(* JSON values are tagged records (JI(5), JS("x")), a JSON object / Python *)
(* dict is a function whose DOMAIN is the set of keys present.  A serial   *)
(* line is a record that states what the handler's tests on the text can   *)
(* see: whether it is empty, which marker substrings it contains, the text *)
(* that follows "Device ID:" / "MAC Address:", whether it starts with "{"  *)
(* and what json.loads makes of it.                                        *)
(***************************************************************************)
EXTENDS Integers, Sequences, FiniteSets, TLC

(***************************************************************************)
(* Bounds of the model.                                                    *)
(***************************************************************************)
MaxCount == 2      \* relays, and OTA outcomes, counted over a run
MaxTime == 5       \* last value of the clock (seconds)
MaxTriggers == 2   \* trigger files created over a run

(***************************************************************************)
(* Program constants.                                                      *)
(***************************************************************************)
COOLDOWN == 5      \* pairing_cooldown_until = time.time() + 5

Ports == {"p1", "p2"}

(***************************************************************************)
(* Python / JSON values.                                                   *)
(***************************************************************************)
PyNone == [t |-> "none"]
JI(n) == [t |-> "int", v |-> n]
JS(s) == [t |-> "str", v |-> s]
EmptyDict == [k \in {} |-> PyNone]

\* json.loads(text): what it returns, or that it raises
ParseError == [ok |-> FALSE]
ParsedObject(o) == [ok |-> TRUE, dict |-> TRUE, val |-> o]
ParsedArray == [ok |-> TRUE, dict |-> FALSE]

\* dict.get(key, default)
Get(d, key, default) == IF key \in DOMAIN d THEN d[key] ELSE default

\* d2 = d.copy(); d2[key] = val
With(d, key, val) ==
    [k \in DOMAIN d \cup {key} |-> IF k = key THEN val ELSE d[k]]

\* Python truthiness of an Optional[str]
Truthy(x) == x # PyNone /\ x # JS("")

(***************************************************************************)
(* Frames a device sends.                                                  *)
(***************************************************************************)
AnswerPayloads ==
    { [Ans |-> JS("A"), Id |-> JI(5), Did |-> JI(7)],
      [Id |-> JI(5), Did |-> JI(7)],
      [Ans |-> JS("B")],
      [Id |-> JS("unknown"), Did |-> JI(7)] }

OtaPayloads ==
    { [OTA |-> JS("OTA_SUCCESS"), Did |-> JI(7)],
      [OTA |-> JS("OTA_ERROR"), Did |-> JI(7), Msg |-> JS("x")],
      [OTA |-> JS("OTA_STARTING"), Did |-> JI(7)],
      [OTA |-> JS("OTA_REBOOT"), Did |-> JI(7)],
      [OTA |-> JS("OTA_SUCCESS"), Id |-> JI(5), Did |-> JI(7)] }

ConfigPayloads ==
    { [CONFIG |-> JS("WIFI_OK"), Did |-> JI(8)],
      [CONFIG |-> JS("DEVICE_ID_OK"), Id |-> JI(5), Did |-> JI(8)] }

OtherPayloads == { [Did |-> JI(7)] }

Payloads == AnswerPayloads \cup OtaPayloads \cup ConfigPayloads \cup OtherPayloads

(***************************************************************************)
(* Serial lines.  mk: the marker substrings the line contains              *)
(*   REQ     "PAIRING REQUEST"             (cooldown keyword, line 225)    *)
(*   RECV    "PAIRING REQUEST RECEIVED"    (line 230; implies REQ)         *)
(*   DID     "Device ID:"      MAC  "MAC Address:"                         *)
(*   MOTHER  "Do you want to become the mother"                            *)
(*   TYPEY   "Type 'Y'"        TYPEy "Type 'y'"                            *)
(* json: what json.loads(line) does.                                       *)
(***************************************************************************)
TextLine(mk, idtxt, mactxt) ==
    [empty |-> FALSE, mk |-> mk, idtxt |-> idtxt, mactxt |-> mactxt,
     brace |-> FALSE, json |-> ParseError]

JsonLine(payload) ==
    [empty |-> FALSE, mk |-> {}, idtxt |-> "", mactxt |-> "",
     brace |-> TRUE, json |-> ParsedObject(payload)]

\* a timed-out readline(): ""
EmptyLine ==
    [empty |-> TRUE, mk |-> {}, idtxt |-> "", mactxt |-> "",
     brace |-> FALSE, json |-> ParseError]

\* a line that starts with "{" and is not JSON
BrokenJsonLine ==
    [empty |-> FALSE, mk |-> {}, idtxt |-> "", mactxt |-> "",
     brace |-> TRUE, json |-> ParseError]

\* an answer frame whose text contains a marker: {"Id":5,"Ans":"Type 'Y'"}
MarkedJsonLine ==
    [empty |-> FALSE, mk |-> {"TYPEY"}, idtxt |-> "", mactxt |-> "",
     brace |-> TRUE,
     json |-> ParsedObject([Ans |-> JS("Type 'Y'"), Id |-> JI(5)])]

MarkerLines ==
    { TextLine({"REQ", "RECV"}, "", ""),
      TextLine({"REQ"}, "", ""),
      TextLine({"DID"}, "7", ""),
      TextLine({"DID"}, "", ""),
      TextLine({"DID"}, "x7", ""),
      TextLine({"MAC"}, "", "AA:BB"),
      TextLine({"MOTHER"}, "", ""),
      TextLine({"TYPEY"}, "", ""),
      TextLine({"TYPEy"}, "", "") }

FrameLines == { JsonLine(pl) : pl \in Payloads }

NoiseLines == { EmptyLine, BrokenJsonLine, TextLine({}, "", "") }

Lines == MarkerLines \cup FrameLines \cup NoiseLines \cup {MarkedJsonLine}


(***************************************************************************)
(* What the operator may type at a prompt (input()); PyNone is what        *)
(* get_user_input_with_timeout returns on a timeout.                       *)
(***************************************************************************)
\* str.strip().upper() on the typed strings
Upper(s) == CASE s = "yes" -> "YES"
              [] s = "x" -> "X"
              [] s = "net" -> "NET"
              [] OTHER -> s

\* int(s.strip()): [ok |-> FALSE] stands for ValueError
ParseInt(s) == CASE s = "7" -> [ok |-> TRUE, n |-> 7]
                 [] s = "0" -> [ok |-> TRUE, n |-> 0]
                 [] s = "300" -> [ok |-> TRUE, n |-> 300]
                 [] OTHER -> [ok |-> FALSE, n |-> 0]

\* response.strip().upper() in ['Y', 'YES']
SaysYes(inp) == Truthy(inp) /\ Upper(inp.v) \in {"Y", "YES"}

(***************************************************************************)
(* Backend replies to the answer POST.  body: what json.loads makes of the *)
(* response text (it raises, a JSON array, or a JSON object).              *)
(***************************************************************************)
ApiObjects ==
    { [code |-> JI(200)],
      [code |-> JI(200), id |-> JI(9)],
      EmptyDict }

Replies ==
    { [kind |-> "http", status |-> 200, body |-> ParsedObject(o)] : o \in ApiObjects }
    \cup { [kind |-> "http", status |-> 200, body |-> ParseError],
           [kind |-> "http", status |-> 200, body |-> ParsedArray],
           [kind |-> "http", status |-> 500, body |-> ParseError],
           [kind |-> "http", status |-> 500, body |-> ParsedObject([code |-> JI(500)])],
           [kind |-> "transport_error", status |-> 0, body |-> ParseError] }

(***************************************************************************)
(* Trigger files ({"device_id": .., "firmware": ..}) and what json.load    *)
(* makes of their content.                                                 *)
(***************************************************************************)
TriggerNames == {"esp_ota_command.json", "esp_ota_command_7.json"}

TriggerContents ==
    { [exists |-> TRUE,
       json |-> ParsedObject([device_id |-> JI(7), firmware |-> JS("fw.bin")])],
      [exists |-> TRUE, json |-> ParsedObject([device_id |-> JI(7)])],
      [exists |-> TRUE, json |-> ParseError] }

NoFile == [exists |-> FALSE]

\* trigger_ota_multi.py, line 49: the file open(ota_file, 'w') has just
\* created, empty until json.dump is flushed when the with block closes it
BeingWritten == [exists |-> TRUE, json |-> ParseError, writer |-> TRUE]

\* the same file after os.remove: off the directory, still open in the script
Unlinked == [exists |-> FALSE, writer |-> TRUE]

HasWriter(file) == "writer" \in DOMAIN file

\* os.remove(path) on a file
Remove(file) == IF HasWriter(file) THEN Unlinked ELSE NoFile

VARIABLES
    running,                 \* self.running
    session_id,              \* self.session_id
    ota_sessions,            \* self.ota_sessions: device id -> OTASession
    active_devices,          \* keys of self.active_devices
    serial_ports,            \* keys of self.serial_ports, in insertion order
    stats,                   \* self.stats
    ser,                     \* per port: the handle its handler opened
    hpc,                     \* per port: where its handler task is
    cancelled,               \* per port: task.cancel() called, not yet delivered
    in_pairing_mode,         \* handle_device locals, per port
    pairing_device_id,
    pairing_mac,
    pairing_cooldown_until,
    device_id,
    chain,                   \* locals of the configuration prompts
    http,                    \* per port: the POST in flight
    wire,                    \* per port: frames written to its handle since
                             \* the handler took its last non-empty line
    now,                     \* time.time()
    spc,                     \* where monitor_devices is
    ota_files,               \* monitor_devices local: files still to process
    disk,                    \* trigger files in the temp directory
    created,                 \* trigger files created so far
    ota_tasks,               \* the initiate_wifi_ota tasks created so far
    attached,                \* ports the operating system lists
    leaked,                  \* ports with a handle opened and never closed
    stdin_readers,           \* the input() calls blocked on the standard input,
                             \* oldest first
    script                   \* the run of trigger_ota_multi.py

vars == << running, session_id, ota_sessions, active_devices, serial_ports,
           stats, ser, hpc, cancelled, in_pairing_mode, pairing_device_id, pairing_mac,
           pairing_cooldown_until, device_id, chain, http, wire, now, spc,
           ota_files, disk, created, ota_tasks, attached, leaked,
           stdin_readers, script >>

mgrVars == << running, session_id, active_devices, ota_sessions >>
pairVars == << in_pairing_mode, pairing_device_id, pairing_mac,
               pairing_cooldown_until >>
supVars == << spc, ota_files, disk, created, ota_tasks, attached, leaked >>

Unbound == [t |-> "unbound"]
NoReq == [t |-> "none"]
NoChain == [gpio_config |-> EmptyDict, wifi_ssid |-> "", wifi_config |-> EmptyDict]

InitManager ==
    /\ running = TRUE
    /\ session_id = "0"
    /\ ota_sessions = EmptyDict
    /\ active_devices = {}
    /\ serial_ports = << >>
    /\ stats = [answers_processed |-> 0, errors |-> 0, ota_updates |-> 0,
                ota_successes |-> 0, ota_failures |-> 0]
    /\ ser = [p \in Ports |-> "none"]
    /\ hpc = [p \in Ports |-> "none"]
    /\ cancelled = [p \in Ports |-> FALSE]
    /\ in_pairing_mode = [p \in Ports |-> FALSE]
    /\ pairing_device_id = [p \in Ports |-> PyNone]
    /\ pairing_mac = [p \in Ports |-> PyNone]
    /\ pairing_cooldown_until = [p \in Ports |-> 0]
    /\ device_id = [p \in Ports |-> Unbound]
    /\ chain = [p \in Ports |-> NoChain]
    /\ http = [p \in Ports |-> NoReq]
    /\ wire = [p \in Ports |-> << >>]
    /\ now = 0
    /\ spc = "mother"
    /\ ota_files = << >>
    /\ disk = [f \in TriggerNames |-> NoFile]
    /\ created = 0
    /\ ota_tasks = << >>
    /\ attached = {}
    /\ leaked = {}
    /\ stdin_readers = << >>

\* trigger_ota_multi.py has not been started
NotRun == [pc |-> "idle"]

Init == InitManager /\ script = NotRun


(***************************************************************************)
(* Scheduling.  The tasks share one event loop: a task runs from one await *)
(* to the next without interruption.  Every handler and dispatcher action  *)
(* below is one such run; monitor_devices takes several actions between    *)
(* two of its awaits (spc = "files"), and no other task runs meanwhile.    *)
(***************************************************************************)
\* no handler is inside the ser.write() of line 390, which runs on the event
\* loop's own thread: until it returns no task of the loop runs
LoopFree == \A p \in Ports : hpc[p] # "ser_write"

Yielded == spc # "files" /\ LoopFree

\* a reading loop that goes on while the handler is parked at another await
CanRunReader(p, at) ==
    (hpc[p] = at \/ at = "readline") /\ ~cancelled[p] /\ Yielded

CanRun(p, at) == hpc[p] = at /\ ~cancelled[p] /\ Yielded

(***************************************************************************)
(* handle_device: the tests on one line, in the order of the code.         *)
(***************************************************************************)
CooldownKeywords == {"REQ", "DID", "MAC", "MOTHER", "TYPEY"}

\* a faulty handler: a pairing request is ignored while the port is in
\* pairing mode
RequestSkippedInPairing(line, mode, t, until) == mode /\ "REQ" \in line.mk

\* lines 221-227
InCooldownSkip(line, mode, t, until) ==
    mode /\ t < until /\ line.mk \cap CooldownKeywords # {}

\* line 230
IsPairingRequest(line) == "RECV" \in line.mk

\* a faulty handler: the prompt line is taken outside pairing mode too
IsPromptLineAnyMode(mode, line) == line.mk \cap {"TYPEY", "TYPEy"} # {}

\* line 262
IsPromptLine(mode, line) == mode /\ line.mk \cap {"TYPEY", "TYPEy"} # {}

\* line 435
IsAnswerFrame(payload) == "Ans" \in DOMAIN payload \/ "Id" \in DOMAIN payload

\* a faulty handler: the answer test comes before the OTA and CONFIG tests
BranchAnswerFirst(line, mode, t, until) ==
    IF line.empty THEN "empty"
    ELSE IF InCooldownSkip(line, mode, t, until) THEN "cooldown"
    ELSE IF IsPairingRequest(line) THEN "request"
    ELSE IF mode /\ "DID" \in line.mk THEN "devid"
    ELSE IF mode /\ "MAC" \in line.mk THEN "mac"
    ELSE IF mode /\ "MOTHER" \in line.mk THEN "mother"
    ELSE IF IsPromptLine(mode, line) THEN "prompt"
    ELSE IF ~line.brace THEN "text"
    ELSE IF ~line.json.ok THEN "badjson"
    ELSE IF IsAnswerFrame(line.json.val) THEN "answer"
    ELSE IF "OTA" \in DOMAIN line.json.val THEN "ota"
    ELSE IF "CONFIG" \in DOMAIN line.json.val THEN "config"
    ELSE "ignored"

\* lines 221-440: the branch of the loop body a line takes
Branch(line, mode, t, until) ==
    IF line.empty THEN "empty"
    ELSE IF InCooldownSkip(line, mode, t, until) THEN "cooldown"
    ELSE IF IsPairingRequest(line) THEN "request"
    ELSE IF mode /\ "DID" \in line.mk THEN "devid"
    ELSE IF mode /\ "MAC" \in line.mk THEN "mac"
    ELSE IF mode /\ "MOTHER" \in line.mk THEN "mother"
    ELSE IF IsPromptLine(mode, line) THEN "prompt"
    ELSE IF ~line.brace THEN "text"
    ELSE IF ~line.json.ok THEN "badjson"
    ELSE IF "OTA" \in DOMAIN line.json.val THEN "ota"
    ELSE IF "CONFIG" \in DOMAIN line.json.val THEN "config"
    ELSE IF IsAnswerFrame(line.json.val) THEN "answer"
    ELSE "ignored"

\* a faulty tracker: the error branch counts a success
handle_wifi_ota_status_one_counter(st, payload) ==
    LET ota_status == Get(payload, "OTA", PyNone) IN
    IF ota_status = JS("OTA_SUCCESS")
    THEN [st EXCEPT !.ota_successes = @ + 1]
    ELSE IF ota_status = JS("OTA_ERROR")
    THEN [st EXCEPT !.ota_successes = @ + 1]
    ELSE st

\* handle_wifi_ota_status: the statistics after the status frame
handle_wifi_ota_status(st, payload) ==
    LET ota_status == Get(payload, "OTA", PyNone) IN
    IF ota_status = JS("OTA_SUCCESS")
    THEN [st EXCEPT !.ota_successes = @ + 1]
    ELSE IF ota_status = JS("OTA_ERROR")
    THEN [st EXCEPT !.ota_failures = @ + 1]
    ELSE st

\* a faulty relay: the frame is posted as received, without the session id
AnswerRequestAsReceived(payload, sid) ==
    [t |-> "post",
     payload |-> payload,
     query |-> Get(payload, "Did", PyNone),
     body |-> payload]

\* process_answer, lines 463-472: the request it posts
AnswerRequest(payload, sid) ==
    [t |-> "post",
     payload |-> payload,
     query |-> Get(payload, "Did", PyNone),
     body |-> With(payload, "sessionId", JS(sid))]

\* send_device_response, lines 496-503: the response packet
send_device_response(original_payload, api_response) ==
    LET terminal_id == Get(original_payload, "Id", JS("unknown"))
        dev == Get(original_payload, "Did", JI(0))
    IN [Id |-> IF terminal_id # JS("unknown") THEN terminal_id
               ELSE Get(api_response, "id", JI(0)),
        c |-> Get(api_response, "code", JI(0)),
        Did |-> dev]

\* a faulty relay: only a failed call counts as an error, a non-200 status
\* counts nothing
StatsAfterReplyCallOnly(st, reply) ==
    IF reply.kind = "http" /\ reply.status = 200 /\ reply.body.ok
    THEN [st EXCEPT !.answers_processed = @ + 1]
    ELSE IF reply.kind # "http" THEN [st EXCEPT !.errors = @ + 1] ELSE st

\* process_answer, lines 473-490: the statistics after the reply
StatsAfterReply(st, reply) ==
    IF reply.kind = "http" /\ reply.status = 200 /\ reply.body.ok
    THEN [st EXCEPT !.answers_processed = @ + 1]
    ELSE [st EXCEPT !.errors = @ + 1]

\* process_answer / send_device_response: the frames written for the reply;
\* wok: whether ser.write succeeds
FramesAfterReply(payload, reply, wok) ==
    IF /\ reply.kind = "http" /\ reply.status = 200
       /\ reply.body.ok /\ reply.body.dict /\ wok
    THEN << send_device_response(payload, reply.body.val) >>
    ELSE << >>

\* a faulty relay: the response goes to the first registered port, as the
\* fallback of the operator console does
ResponsePortFirst(p) == serial_ports[1]

\* the handle send_device_response writes to: ser, the caller's own handle
ResponsePort(p) == p

\* room left under the caps for one more relay
RelayRoom ==
    LET inflight == Cardinality({q \in Ports : http[q] # NoReq}) IN
    stats.answers_processed + stats.errors + inflight < MaxCount

CapsOK(st) == st.ota_successes + st.ota_failures <= MaxCount

\* a faulty loop: process_answer is started and not awaited
AwaitAfterDetached(b) == IF b = "prompt" THEN "ask_pair" ELSE "readline"

\* handle_device: the await the handler is parked at after a line of branch
\* b: the prompt of line 262, the POST of process_answer (line 440, awaited)
\* or the next readline
AwaitAfter(b) ==
    IF b = "prompt" THEN "ask_pair"
    ELSE IF b = "answer" THEN "post"
    ELSE "readline"

(***************************************************************************)
(* handle_device, lines 207-440: one line is read and handled up to the    *)
(* next await.                                                             *)
(***************************************************************************)
ReadLine(p, line) ==
    /\ CanRun(p, "readline")
    /\ running
    /\ LET b == Branch(line, in_pairing_mode[p], now, pairing_cooldown_until[p])
           payload == line.json.val
       IN
       /\ b = "answer" => RelayRoom
       /\ in_pairing_mode' =
            IF b = "request" THEN [in_pairing_mode EXCEPT ![p] = TRUE]
            ELSE in_pairing_mode
       /\ pairing_device_id' =
            IF b = "request" THEN [pairing_device_id EXCEPT ![p] = PyNone]
            ELSE IF b = "devid"
            THEN [pairing_device_id EXCEPT ![p] = JS(line.idtxt)]
            ELSE pairing_device_id
       /\ pairing_mac' =
            IF b = "request" THEN [pairing_mac EXCEPT ![p] = PyNone]
            ELSE IF b = "mac" THEN [pairing_mac EXCEPT ![p] = JS(line.mactxt)]
            ELSE pairing_mac
       /\ stats' = IF b = "ota" THEN handle_wifi_ota_status(stats, payload)
                   ELSE stats
       /\ CapsOK(stats')
       /\ device_id' =
            IF b = "config"
            THEN [device_id EXCEPT ![p] = Get(payload, "Did", PyNone)]
            ELSE IF b = "answer"
            THEN [device_id EXCEPT ![p] = Get(payload, "Did", JS("unknown"))]
            ELSE device_id
       /\ http' = IF b = "answer"
                  THEN [http EXCEPT ![p] = AnswerRequest(payload, session_id)]
                  ELSE http
       /\ hpc' = [hpc EXCEPT ![p] = AwaitAfter(b)]
    /\ wire' = IF line.empty THEN wire ELSE [wire EXCEPT ![p] = << >>]
    /\ UNCHANGED << mgrVars, serial_ports, ser, cancelled,
                    pairing_cooldown_until, chain, now, supVars >>

\* ser.readline() raises: logged, sleep(0.1), next line (lines 442-445)
ReadFault(p) ==
    /\ CanRun(p, "readline")
    /\ running
    /\ UNCHANGED vars

\* a faulty relay: a response frame that cannot be written counts as an
\* error too
HttpReplyWriteCounted(p, reply, wok) ==
    /\ CanRun(p, "post")
    /\ LET okReply == reply.kind = "http" /\ reply.status = 200 /\ reply.body.ok
           st == StatsAfterReply(stats, reply)
       IN stats' = IF okReply /\ ~wok THEN [st EXCEPT !.errors = @ + 1] ELSE st
    /\ wire' = [wire EXCEPT ![ResponsePort(p)] =
                   @ \o FramesAfterReply(http[p].payload, reply, wok)]
    /\ http' = [http EXCEPT ![p] = NoReq]
    /\ hpc' = [hpc EXCEPT ![p] = "readline"]
    /\ UNCHANGED << mgrVars, serial_ports, ser, cancelled, pairVars, device_id,
                    chain, now, supVars, stdin_readers, script >>

(***************************************************************************)
(* process_answer, lines 472-490, and send_device_response: the reply to   *)
(* the POST arrives.                                                       *)
(***************************************************************************)
HttpReply(p, reply, wok) ==
    /\ CanRun(p, "post")
    /\ stats' = StatsAfterReply(stats, reply)
    /\ wire' = [wire EXCEPT ![ResponsePort(p)] =
                   @ \o FramesAfterReply(http[p].payload, reply, wok)]
    /\ http' = [http EXCEPT ![p] = NoReq]
    /\ hpc' = [hpc EXCEPT ![p] = "readline"]
    /\ UNCHANGED << mgrVars, serial_ports, ser, cancelled, pairVars, device_id,
                    chain, now, supVars, stdin_readers, script >>


(***************************************************************************)
(* handle_device, lines 262-402: the operator prompts of a handshake.      *)
(* Each action is the handler's run from the return of one                 *)
(* get_user_input_with_timeout to the next await; inp is what the prompt   *)
(* returned and wok whether the ser.write of that run succeeds.  The       *)
(* sleeps (lines 286, 310, 368) are folded into the runs that follow them. *)
(***************************************************************************)
YesNoInputs == {JS("Y"), JS("yes"), JS("N"), JS(""), PyNone}
NumberInputs == {JS("7"), JS("0"), JS("300"), JS("x"), PyNone}
PinInputs == {JS("7"), JS("300"), JS("x"), PyNone}
TextInputs == {JS("net"), JS(""), PyNone}

GpioKeys == << "RedPin", "GreenPin", "YellowPin", "ButtonA", "ButtonB",
               "ButtonC", "ButtonD" >>

RawFrame(text) == [raw |-> JS(text)]

\* lines 397-402
ExitPairing(p) ==
    /\ in_pairing_mode' = [in_pairing_mode EXCEPT ![p] = FALSE]
    /\ pairing_cooldown_until' = [pairing_cooldown_until EXCEPT ![p] = now + COOLDOWN]
    /\ pairing_device_id' = [pairing_device_id EXCEPT ![p] = PyNone]
    /\ pairing_mac' = [pairing_mac EXCEPT ![p] = PyNone]
    /\ chain' = [chain EXCEPT ![p] = NoChain]
    /\ hpc' = [hpc EXCEPT ![p] = "readline"]

\* a faulty handler: the exception leaves the loop and the task ends
EscapesAndStops(p) ==
    /\ UNCHANGED pairVars
    /\ chain' = [chain EXCEPT ![p] = NoChain]
    /\ hpc' = [hpc EXCEPT ![p] = "done"]

\* an exception reaches the handler of lines 442-445: the rest of the
\* iteration, lines 397-402 included, is skipped
Escapes(p) ==
    /\ UNCHANGED pairVars
    /\ chain' = [chain EXCEPT ![p] = NoChain]
    /\ hpc' = [hpc EXCEPT ![p] = "readline"]

NextPrompt(p, at) ==
    /\ UNCHANGED pairVars
    /\ hpc' = [hpc EXCEPT ![p] = at]

Written(p, frame) == wire' = [wire EXCEPT ![p] = Append(@, frame)]

promptFrame == << mgrVars, serial_ports, ser, cancelled, device_id, http,
                  stats, now, supVars >>

\* a faulty handler: every answer the operator types accepts the pairing
AcceptsAnyAnswer(response) == TRUE

\* line 281: response == 'Y' or response == 'YES'
Accepts(response) == response \in {"Y", "YES"}

\* lines 270-283 and 392-395: the answer to "Do you want to pair?"
PairResponse(p, inp, wok) ==
    /\ CanRun(p, "ask_pair")
    /\ IF Truthy(inp)
       THEN IF ~wok
            THEN Escapes(p) /\ UNCHANGED wire
            ELSE /\ Written(p, RawFrame(Upper(inp.v)))
                 /\ IF Accepts(Upper(inp.v))
                    THEN NextPrompt(p, "ask_devid") /\ UNCHANGED chain
                    ELSE ExitPairing(p)
       ELSE ExitPairing(p) /\ UNCHANGED wire
    /\ UNCHANGED promptFrame

\* lines 290-292
AskDeviceId(p, inp) ==
    /\ CanRun(p, "ask_devid")
    /\ NextPrompt(p, IF SaysYes(inp) THEN "enter_devid" ELSE "ask_gpio")
    /\ UNCHANGED << promptFrame, chain, wire >>

\* int(pairing_device_id) if pairing_device_id else alt (lines 303, 335)
PairingDid(p, alt) ==
    IF Truthy(pairing_device_id[p])
    THEN ParseInt(pairing_device_id[p].v)
    ELSE [ok |-> TRUE, n |-> alt]

\* a faulty check: the range starts at 0
DeviceIdFromZero(new_device_id) == 0 <= new_device_id /\ new_device_id <= 255

\* line 299
ValidDeviceId(new_device_id) == 1 <= new_device_id /\ new_device_id <= 255

\* lines 294-314
EnterDeviceId(p, inp, wok) ==
    /\ CanRun(p, "enter_devid")
    /\ LET new_device_id == ParseInt(inp.v)
           did == PairingDid(p, new_device_id.n)
           valid == /\ Truthy(inp) /\ new_device_id.ok
                    /\ ValidDeviceId(new_device_id.n)
                    /\ did.ok
       IN IF valid /\ ~wok
          THEN Escapes(p) /\ UNCHANGED wire
          ELSE /\ NextPrompt(p, "ask_gpio")
               /\ UNCHANGED chain
               /\ IF valid
                  THEN Written(p, [CONFIG_CMD |-> JS("SET_DEVICE_ID"),
                                   Did |-> JI(did.n),
                                   DeviceId |-> JI(new_device_id.n)])
                  ELSE UNCHANGED wire
    /\ UNCHANGED promptFrame

\* lines 318-336
AskGpio(p, inp) ==
    /\ CanRun(p, "ask_gpio")
    /\ IF SaysYes(inp)
       THEN LET did == PairingDid(p, 0) IN
            IF did.ok
            THEN /\ NextPrompt(p, "pin")
                 /\ chain' = [chain EXCEPT ![p].gpio_config =
                                 [CONFIG_CMD |-> JS("SET_GPIO_CONFIG"),
                                  Did |-> JI(did.n)]]
            ELSE Escapes(p)
       ELSE NextPrompt(p, "ask_wifi") /\ UNCHANGED chain
    /\ UNCHANGED << promptFrame, wire >>

\* a faulty check: every integer is taken as a pin
AnyPin(pin_num) == TRUE

\* line 347: the ESP32 GPIO range
ValidPin(pin_num) == 0 <= pin_num /\ pin_num <= 48

\* lines 339-368: one pass of the loop over gpio_prompts
EnterPin(p, inp, wok) ==
    /\ CanRun(p, "pin")
    /\ LET pin_num == ParseInt(inp.v)
           valid == Truthy(inp) /\ pin_num.ok /\ ValidPin(pin_num.n)
           cfg == chain[p].gpio_config
           key == GpioKeys[Cardinality(DOMAIN cfg) - 1]
           cfg2 == With(cfg, key, JI(pin_num.n))
           last == Cardinality(DOMAIN cfg) - 1 = Len(GpioKeys)
       IN IF ~valid
          THEN /\ NextPrompt(p, "ask_wifi")
               /\ chain' = [chain EXCEPT ![p] = NoChain]
               /\ UNCHANGED wire
          ELSE IF ~last
          THEN /\ NextPrompt(p, "pin")
               /\ chain' = [chain EXCEPT ![p].gpio_config = cfg2]
               /\ UNCHANGED wire
          ELSE IF wok
          THEN /\ NextPrompt(p, "ask_wifi")
               /\ chain' = [chain EXCEPT ![p] = NoChain]
               /\ Written(p, cfg2)
          ELSE Escapes(p) /\ UNCHANGED wire
    /\ UNCHANGED promptFrame

\* lines 372-374
AskWifi(p, inp) ==
    /\ CanRun(p, "ask_wifi")
    /\ IF SaysYes(inp)
       THEN NextPrompt(p, "ssid") /\ UNCHANGED chain
       ELSE ExitPairing(p)
    /\ UNCHANGED << promptFrame, wire >>

\* lines 376-378
EnterSsid(p, inp) ==
    /\ CanRun(p, "ssid")
    /\ IF Truthy(inp)
       THEN /\ NextPrompt(p, "password")
            /\ chain' = [chain EXCEPT ![p].wifi_ssid = inp.v]
       ELSE ExitPairing(p)
    /\ UNCHANGED << promptFrame, wire >>

\* lines 380-390; device_id is the local of lines 424 and 437, unbound
\* until a CONFIG or an answer frame has been handled.  The handler enters
\* ser.write() on the thread of the event loop.
EnterPassword(p, inp) ==
    /\ CanRun(p, "password")
    /\ IF ~Truthy(inp)
       THEN ExitPairing(p)
       ELSE IF device_id[p] = Unbound
       THEN Escapes(p)
       ELSE /\ NextPrompt(p, "ser_write")
            /\ chain' = [chain EXCEPT ![p].wifi_config =
                            [CONFIG_CMD |-> JS("SET_WIFI_CONFIG"),
                             Did |-> device_id[p],
                             SSID |-> JS(chain[p].wifi_ssid),
                             Password |-> JS(inp.v)]]
    /\ UNCHANGED << promptFrame, wire >>

\* lines 390-402: ser.write() returns (wok) or raises
WifiWrite(p, wok) ==
    /\ hpc[p] = "ser_write"
    /\ IF wok
       THEN Written(p, chain[p].wifi_config) /\ ExitPairing(p)
       ELSE Escapes(p) /\ UNCHANGED wire
    /\ UNCHANGED << promptFrame, stdin_readers, script >>


(***************************************************************************)
(* The port registry self.serial_ports (a dict: keys in insertion order).  *)
(***************************************************************************)
Registered == { serial_ports[i] : i \in DOMAIN serial_ports }

\* self.serial_ports[port] = ser
Register(reg, p) ==
    IF \E i \in DOMAIN reg : reg[i] = p THEN reg ELSE Append(reg, p)

\* a faulty cleanup: the handle is closed and its entry is left in place
EntryKept(reg, p) == reg

\* del self.serial_ports[port]
Unregister(reg, p) == SelectSeq(reg, LAMBDA q : q # p)

\* the handle of each port in ps is closed: a dispatcher that holds it and
\* has not written yet will write to a closed handle
TasksAfterClose(tasks, ps) ==
    [i \in DOMAIN tasks |->
        IF tasks[i].pc = "writing" /\ tasks[i].port \in ps
        THEN [tasks[i] EXCEPT !.ser_closed = TRUE]
        ELSE tasks[i]]

handlerLocals == << pairVars, device_id, chain, http >>

\* the locals of lines 201-205 at the start of a handler
FreshLocals(p) ==
    /\ in_pairing_mode' = [in_pairing_mode EXCEPT ![p] = FALSE]
    /\ pairing_device_id' = [pairing_device_id EXCEPT ![p] = PyNone]
    /\ pairing_mac' = [pairing_mac EXCEPT ![p] = PyNone]
    /\ pairing_cooldown_until' = [pairing_cooldown_until EXCEPT ![p] = 0]
    /\ device_id' = [device_id EXCEPT ![p] = Unbound]
    /\ chain' = [chain EXCEPT ![p] = NoChain]
    /\ http' = [http EXCEPT ![p] = NoReq]

\* lines 449-457: the finally block
Cleanup(p) ==
    /\ serial_ports' = Unregister(serial_ports, p)
    /\ ser' = IF p \in Registered THEN [ser EXCEPT ![p] = "closed"] ELSE ser
    /\ ota_tasks' = IF p \in Registered THEN TasksAfterClose(ota_tasks, {p})
                    ELSE ota_tasks
    /\ hpc' = [hpc EXCEPT ![p] = "done"]

(***************************************************************************)
(* handle_device, lines 190-205: serial.Serial(port, ...) returns (ok) or  *)
(* raises.                                                                 *)
(***************************************************************************)
HandlerOpened(p, ok) ==
    /\ CanRun(p, "opening")
    /\ running
    /\ IF ok
       THEN /\ ser' = [ser EXCEPT ![p] = "open"]
            /\ serial_ports' = Register(serial_ports, p)
            /\ hpc' = [hpc EXCEPT ![p] = "readline"]
            /\ UNCHANGED ota_tasks
       ELSE Cleanup(p)
    /\ FreshLocals(p)
    /\ UNCHANGED << mgrVars, stats, cancelled, wire, now, spc, ota_files, disk,
                    created, attached, leaked, stdin_readers, script >>

(***************************************************************************)
(* The CancelledError of task.cancel() reaches the handler at the await it *)
(* is suspended in; the finally block runs.  A handler cancelled while     *)
(* serial.Serial() runs in the executor never sees the handle: if the call *)
(* succeeds (opened) the handle stays open.                                *)
(***************************************************************************)
HandlerCancelled(p, opened) ==
    /\ cancelled[p]
    /\ hpc[p] \notin {"none", "done"}
    /\ Yielded
    /\ Cleanup(p)
    /\ FreshLocals(p)
    /\ cancelled' = [cancelled EXCEPT ![p] = FALSE]
    /\ leaked' = IF hpc[p] = "opening" /\ opened THEN leaked \cup {p} ELSE leaked
    /\ UNCHANGED << mgrVars, stats, wire, now, spc, ota_files, disk, created,
                    attached, stdin_readers, script >>

(***************************************************************************)
(* initiate_wifi_ota as a task of its own (created at line 696).           *)
(***************************************************************************)
NewOtaTask(dev, firmware, port) ==
    [device_id |-> dev, firmware |-> firmware, port |-> port, pc |-> "new",
     result |-> "none", ser_closed |-> FALSE, found |-> FALSE, wrote |-> 0,
     counted |-> 0]

OtaCommand(dev, firmware) ==
    [OTA_CMD |-> JS("WIFI_UPDATE"), Did |-> dev, URL |-> firmware]

\* lines 131-151: the registry lookup; the write is handed to the executor
DispatchStart(i) ==
    /\ i \in DOMAIN ota_tasks
    /\ ota_tasks[i].pc = "new"
    /\ Yielded
    /\ LET t == ota_tasks[i] IN
       ota_tasks' = [ota_tasks EXCEPT ![i] =
          IF t.port \in Registered
          THEN [t EXCEPT !.pc = "writing", !.found = TRUE,
                         !.ser_closed = (ser[t.port] # "open")]
          ELSE [t EXCEPT !.pc = "done", !.result = "false"]]
    /\ UNCHANGED << mgrVars, serial_ports, stats, ser, hpc, cancelled,
                    handlerLocals, wire, now, spc, ota_files, disk, created,
                    attached, leaked, stdin_readers, script >>

\* the statistics after a completed write (line 157)
StatsAfterDispatch(st) == [st EXCEPT !.ota_updates = @ + 1]

\* lines 149-158: ser.write() returns, or raises (the handle was closed, or
\* the device fails: ~wok) and the exception leaves initiate_wifi_ota
DispatchWrite(i, wok) ==
    /\ i \in DOMAIN ota_tasks
    /\ ota_tasks[i].pc = "writing"
    /\ Yielded
    /\ LET t == ota_tasks[i]
           done == ~t.ser_closed /\ wok
       IN
       /\ wire' = IF done
                  THEN [wire EXCEPT ![t.port] =
                           Append(@, OtaCommand(t.device_id, t.firmware))]
                  ELSE wire
       /\ stats' = IF done THEN StatsAfterDispatch(stats) ELSE stats
       /\ ota_tasks' = [ota_tasks EXCEPT ![i] =
             [t EXCEPT !.pc = "done",
                       !.result = IF done THEN "true" ELSE "raised",
                       !.wrote = Len(wire'[t.port]) - Len(wire[t.port]),
                       !.counted = @ + stats'.ota_updates - stats.ota_updates]]
    /\ UNCHANGED << mgrVars, serial_ports, ser, hpc, cancelled, handlerLocals,
                    now, spc, ota_files, disk, created, attached, leaked,
                    stdin_readers, script >>

\* asyncio.run cancels the tasks still pending when main() has returned
DispatchCancelled(i) ==
    /\ i \in DOMAIN ota_tasks
    /\ ota_tasks[i].pc # "done"
    /\ spc = "stopped"
    /\ ota_tasks' = [ota_tasks EXCEPT ![i] =
          [@ EXCEPT !.pc = "done", !.result = "cancelled"]]
    /\ UNCHANGED << mgrVars, serial_ports, stats, ser, hpc, cancelled,
                    handlerLocals, wire, now, spc, ota_files, disk, created,
                    attached, leaked, stdin_readers, script >>


(***************************************************************************)
(* main(), line 829: get_mother().  sid is the session id the backend      *)
(* gives; a failed fetch keeps "0".                                        *)
(***************************************************************************)
SessionIds == {"0", "s1"}

GetMother(sid) ==
    /\ spc = "mother"
    /\ session_id' = sid
    /\ spc' = "sleep"
    /\ UNCHANGED << running, ota_sessions, active_devices, serial_ports,
                    stats, ser, hpc, cancelled, handlerLocals, wire, now,
                    ota_files, disk, created, ota_tasks, attached, leaked,
                    stdin_readers, script >>

(***************************************************************************)
(* The environment of the listener: trigger files appear in the temp       *)
(* directory, ports are plugged and unplugged, time passes.                *)
(***************************************************************************)
CreateTrigger(f, content) ==
    /\ created < MaxTriggers
    /\ ~disk[f].exists
    /\ disk' = [disk EXCEPT ![f] = content]
    /\ created' = created + 1
    /\ UNCHANGED << mgrVars, serial_ports, stats, ser, hpc, cancelled,
                    handlerLocals, wire, now, spc, ota_files, ota_tasks,
                    attached, leaked, stdin_readers, script >>

Attach(p) ==
    /\ p \notin attached
    /\ attached' = attached \cup {p}
    /\ UNCHANGED << mgrVars, serial_ports, stats, ser, hpc, cancelled,
                    handlerLocals, wire, now, spc, ota_files, disk, created,
                    ota_tasks, leaked, stdin_readers, script >>

Detach(p) ==
    /\ p \in attached
    /\ attached' = attached \ {p}
    /\ UNCHANGED << mgrVars, serial_ports, stats, ser, hpc, cancelled,
                    handlerLocals, wire, now, spc, ota_files, disk, created,
                    ota_tasks, leaked, stdin_readers, script >>

Tick ==
    /\ now < MaxTime
    /\ now' = now + 1
    /\ UNCHANGED << mgrVars, serial_ports, stats, ser, hpc, cancelled,
                    handlerLocals, wire, supVars, stdin_readers, script >>

(***************************************************************************)
(* monitor_devices.  spc: "sleep" (in the sleep of line 751, or about to   *)
(* enter the loop), "files" (running: between line 662 and the next        *)
(* await), "sleep05" (in the sleep of line 700), "stopped".                *)
(* The callbacks that are ready when monitor_devices goes to sleep run     *)
(* before its timer fires: a created dispatcher has done its first run and *)
(* a cancelled handler has received its CancelledError.                    *)
(***************************************************************************)
\* a faulty loop: the timer of the sleep fires before the ready callbacks run
ReadyQueueIgnored == TRUE

ReadyQueueEmpty ==
    /\ \A i \in DOMAIN ota_tasks : ota_tasks[i].pc # "new"
    /\ \A p \in Ports : ~cancelled[p]

SINGLE_FILE == "esp_ota_command.json"

\* lines 664-674: single_file first, then the glob matches
ListTriggers(d) ==
    (IF d[SINGLE_FILE].exists THEN << SINGLE_FILE >> ELSE << >>)
    \o (IF d["esp_ota_command_7.json"].exists
        THEN << "esp_ota_command_7.json" >> ELSE << >>)

Poll ==
    /\ spc = "sleep"
    /\ LoopFree
    /\ running
    /\ ReadyQueueEmpty
    /\ ota_files' = ListTriggers(disk)
    /\ spc' = "files"
    /\ UNCHANGED << mgrVars, serial_ports, stats, ser, hpc, cancelled,
                    handlerLocals, wire, now, disk, created, ota_tasks,
                    attached, leaked, stdin_readers, script >>

\* line 686
IsOtaCommand(cmd) == "device_id" \in DOMAIN cmd /\ "firmware" \in DOMAIN cmd

\* line 697
StatsAfterTrigger(st) == [st EXCEPT !.ota_updates = @ + 1]

\* a faulty supervisor: the trigger file is left on disk
FileKept(d, f) == d

\* line 683: os.remove(ota_cmd_file), after json.load has returned
FileRemoved(d, f) == [d EXCEPT ![f] = Remove(d[f])]

\* a faulty supervisor: the error handler only logs
FileKeptOnError(d, f) == d

\* lines 703-708: os.remove(ota_cmd_file) in the except branch
FileRemovedOnError(d, f) == [d EXCEPT ![f] = Remove(d[f])]

\* a faulty supervisor: a trigger that cannot be dispatched stays on disk
\* for a later cycle
ProcessFileKeepsUndispatched ==
    /\ spc = "files"
    /\ ota_files # << >>
    /\ LET f == Head(ota_files)
           content == disk[f]
           dispatch == /\ content.exists /\ content.json.ok
                       /\ IsOtaCommand(content.json.val)
                       /\ serial_ports # << >>
       IN
       /\ disk' = IF content.exists /\ content.json.ok
                  THEN IF dispatch THEN FileRemoved(disk, f) ELSE disk
                  ELSE FileRemovedOnError(disk, f)
       /\ ota_files' = Tail(ota_files)
       /\ stats' = IF dispatch THEN StatsAfterTrigger(stats) ELSE stats
       /\ ota_tasks' =
            IF dispatch
            THEN Append(ota_tasks,
                   [NewOtaTask(content.json.val.device_id,
                               content.json.val.firmware,
                               serial_ports[1])
                    EXCEPT !.counted = stats'.ota_updates - stats.ota_updates])
            ELSE ota_tasks
       /\ spc' = IF dispatch THEN "sleep05" ELSE "files"
    /\ UNCHANGED << mgrVars, serial_ports, ser, hpc, cancelled, handlerLocals,
                    wire, now, created, attached, leaked,
                    stdin_readers, script >>

\* lines 677-708: one trigger file
ProcessFile ==
    /\ spc = "files"
    /\ ota_files # << >>
    /\ LET f == Head(ota_files)
           content == disk[f]
           dispatch == /\ content.exists /\ content.json.ok
                       /\ IsOtaCommand(content.json.val)
                       /\ serial_ports # << >>
       IN
       /\ disk' = IF content.exists /\ content.json.ok
                  THEN FileRemoved(disk, f)
                  ELSE FileRemovedOnError(disk, f)
       /\ ota_files' = Tail(ota_files)
       /\ stats' = IF dispatch THEN StatsAfterTrigger(stats) ELSE stats
       /\ ota_tasks' =
            IF dispatch
            THEN Append(ota_tasks,
                   [NewOtaTask(content.json.val.device_id,
                               content.json.val.firmware,
                               serial_ports[1])
                    EXCEPT !.counted = stats'.ota_updates - stats.ota_updates])
            ELSE ota_tasks
       /\ spc' = IF dispatch THEN "sleep05" ELSE "files"
    /\ UNCHANGED << mgrVars, serial_ports, ser, hpc, cancelled, handlerLocals,
                    wire, now, created, attached, leaked,
                    stdin_readers, script >>

\* the sleep of line 700 ends
Resume ==
    /\ spc = "sleep05"
    /\ LoopFree
    /\ \A i \in DOMAIN ota_tasks : ota_tasks[i].pc # "new"
    /\ spc' = "files"
    /\ UNCHANGED << mgrVars, serial_ports, stats, ser, hpc, cancelled,
                    handlerLocals, wire, now, ota_files, disk, created,
                    ota_tasks, attached, leaked, stdin_readers, script >>

\* line 710: find_esp32_ports()
find_esp32_ports == attached

\* a faulty supervisor: a handler is started for every discovered port
all_ports(current_ports) == current_ports

\* lines 713-718
new_ports(current_ports) == current_ports \ active_devices

\* lines 720-726
disconnected_ports(current_ports) == active_devices \ current_ports

\* a faulty supervisor: terminated handlers are never restarted
NoneRestarted(current_ports) == {}

\* lines 728-735
Restarted(current_ports) ==
    { p \in active_devices \cap current_ports : hpc[p] = "done" }

Reconcile ==
    /\ spc = "files"
    /\ ota_files = << >>
    /\ LET current_ports == find_esp32_ports
           started == new_ports(current_ports) \cup Restarted(current_ports)
           gone == disconnected_ports(current_ports)
       IN
       /\ active_devices' = (active_devices \cup new_ports(current_ports)) \ gone
       /\ hpc' = [p \in Ports |-> IF p \in started THEN "opening" ELSE hpc[p]]
       /\ cancelled' = [p \in Ports |->
            IF p \in gone THEN hpc[p] \notin {"none", "done"}
            ELSE IF p \in started THEN FALSE
            ELSE cancelled[p]]
    /\ spc' = "sleep"
    /\ UNCHANGED << running, session_id, ota_sessions, serial_ports, stats,
                    ser,
                    handlerLocals, wire, now, ota_files, disk, created,
                    ota_tasks, attached, leaked, stdin_readers, script >>

(***************************************************************************)
(* shutdown, lines 757-775 (run by __aexit__ when main() is interrupted).  *)
(***************************************************************************)
\* a faulty shutdown: the handles are closed and the handler tasks are left
\* to themselves
ShutdownKeepsTasks ==
    /\ running
    /\ spc \in {"sleep", "sleep05", "files"}
    /\ running' = FALSE
    /\ cancelled' = cancelled
    /\ ser' = [p \in Ports |-> IF p \in Registered THEN "closed" ELSE ser[p]]
    /\ ota_tasks' = TasksAfterClose(ota_tasks, Registered)
    /\ spc' = "stopped"
    /\ UNCHANGED << session_id, ota_sessions, active_devices, serial_ports,
                    stats, hpc,
                    handlerLocals, wire, now, ota_files, disk, created,
                    attached, leaked, stdin_readers, script >>

\* lines 757-775
Shutdown ==
    /\ running
    /\ spc \in {"sleep", "sleep05", "files"}
    /\ running' = FALSE
    /\ cancelled' = [p \in Ports |->
          IF p \in active_devices THEN hpc[p] \notin {"none", "done"}
          ELSE cancelled[p]]
    /\ ser' = [p \in Ports |-> IF p \in Registered THEN "closed" ELSE ser[p]]
    /\ ota_tasks' = TasksAfterClose(ota_tasks, Registered)
    /\ spc' = "stopped"
    /\ UNCHANGED << session_id, ota_sessions, active_devices, serial_ports,
                    stats, hpc,
                    handlerLocals, wire, now, ota_files, disk, created,
                    attached, leaked, stdin_readers, script >>



(***************************************************************************)
(* The steps of the tasks, with the inputs they draw.  In HandlerStep and  *)
(* PromptStep a prompt returns any input or a timeout and the console      *)
(* behind get_user_input_with_timeout is left out (stdin_readers stays     *)
(* empty); SpecConsole below puts it in.                                   *)
(***************************************************************************)
HandlerStep(p, lines) ==
    \/ \E ok \in BOOLEAN : HandlerOpened(p, ok)
    \/ \E line \in lines : ReadLine(p, line) /\ UNCHANGED << stdin_readers, script >>
    \/ ReadFault(p)
    \/ \E reply \in Replies, wok \in BOOLEAN : HttpReply(p, reply, wok)

PromptStep(p) ==
    \/ \E inp \in YesNoInputs, wok \in BOOLEAN :
          PairResponse(p, inp, wok) /\ UNCHANGED << stdin_readers, script >>
    \/ \E inp \in YesNoInputs :
          AskDeviceId(p, inp) /\ UNCHANGED << stdin_readers, script >>
    \/ \E inp \in NumberInputs, wok \in BOOLEAN :
          EnterDeviceId(p, inp, wok) /\ UNCHANGED << stdin_readers, script >>
    \/ \E inp \in YesNoInputs :
          AskGpio(p, inp) /\ UNCHANGED << stdin_readers, script >>
    \/ \E inp \in PinInputs, wok \in BOOLEAN :
          EnterPin(p, inp, wok) /\ UNCHANGED << stdin_readers, script >>
    \/ \E inp \in YesNoInputs :
          AskWifi(p, inp) /\ UNCHANGED << stdin_readers, script >>
    \/ \E inp \in TextInputs :
          EnterSsid(p, inp) /\ UNCHANGED << stdin_readers, script >>
    \/ \E inp \in TextInputs :
          EnterPassword(p, inp) /\ UNCHANGED << stdin_readers, script >>
    \/ \E wok \in BOOLEAN : WifiWrite(p, wok)

CancelStep == \E p \in Ports, opened \in BOOLEAN : HandlerCancelled(p, opened)

DispatchStep ==
    \/ \E i \in 1..MaxTriggers : DispatchStart(i)
    \/ \E i \in 1..MaxTriggers, wok \in BOOLEAN : DispatchWrite(i, wok)
    \/ \E i \in 1..MaxTriggers : DispatchCancelled(i)

(***************************************************************************)
(* Spec: the answer relay and the status tracker.  Two ports are plugged   *)
(* in; the device on p1 sends every frame and noise line, the device on p2 *)
(* answer frames; no device asks for pairing and no trigger file appears.  *)
(***************************************************************************)
BystanderLines ==
    { JsonLine([Id |-> JI(5), Did |-> JI(7)]), JsonLine([Ans |-> JS("B")]) }

Next ==
    \/ HandlerStep("p1", FrameLines \cup NoiseLines)
    \/ HandlerStep("p2", BystanderLines)
    \/ \E sid \in SessionIds : GetMother(sid)
    \/ Poll
    \/ Reconcile
    \/ \E p \in Ports : Attach(p)

Spec == Init /\ [][Next]_vars

(***************************************************************************)
(* SpecPairing: the pairing handshake on one port.  The device on p1 sends *)
(* every line; time passes.                                                *)
(***************************************************************************)
PairingLines ==
    MarkerLines \cup NoiseLines \cup
    { MarkedJsonLine,
      JsonLine([Ans |-> JS("A"), Id |-> JI(5), Did |-> JI(7)]),
      JsonLine([CONFIG |-> JS("DEVICE_ID_OK"), Id |-> JI(5), Did |-> JI(8)]) }

NextPairing ==
    \/ HandlerStep("p1", PairingLines)
    \/ PromptStep("p1")
    \/ GetMother("s1")
    \/ Poll
    \/ Reconcile
    \/ Attach("p1")
    \/ Tick

SpecPairing == Init /\ [][NextPairing]_vars

(***************************************************************************)
(* SpecOta: trigger files, the OTA dispatcher and shutdown.  Two ports are *)
(* plugged in, p1 can be unplugged again; the devices send nothing.        *)
(***************************************************************************)
NextOta ==
    \/ \E p \in Ports, ok \in BOOLEAN : HandlerOpened(p, ok)
    \/ \E p \in Ports : ReadLine(p, EmptyLine) /\ UNCHANGED << stdin_readers, script >>
    \/ CancelStep
    \/ DispatchStep
    \/ GetMother("s1")
    \/ Poll
    \/ ProcessFile
    \/ Resume
    \/ Reconcile
    \/ Shutdown
    \/ \E f \in TriggerNames, c \in TriggerContents : CreateTrigger(f, c)
    \/ \E p \in Ports : Attach(p)
    \/ Detach("p1")

SpecOta == Init /\ [][NextOta]_vars

(***************************************************************************)
(* get_user_input_with_timeout, lines 107-124.  input() is handed to an    *)
(* executor thread, which blocks on the standard input; wait_for gives up  *)
(* after the timeout and cancels the future, but a thread inside input()   *)
(* cannot be cancelled: it stays blocked and takes the next line typed.    *)
(* The threads read the standard input one at a time, the oldest first.    *)
(* awaited: a handler still waits for the result of the call.              *)
(***************************************************************************)
MaxStale == 2

PromptAwaits == {"ask_pair", "ask_devid", "enter_devid", "ask_gpio", "pin",
                 "ask_wifi", "ssid", "password"}

\* line 114: loop.run_in_executor(None, input), called by the handler of p
InputCall(p) == [port |-> p, awaited |-> TRUE]

\* the threads after a run of the handler of p that ends at the await at
\* (a prompt of lines 270-380, or another await)
Started(readers, p, at) ==
    IF at \in PromptAwaits THEN Append(readers, InputCall(p)) ELSE readers

\* lines 117 and 119: wait_for times out; the thread of the call lives on
Abandoned(readers, p) ==
    [i \in DOMAIN readers |->
        IF readers[i].port = p THEN [readers[i] EXCEPT !.awaited = FALSE]
        ELSE readers[i]]

Stale(readers) == { i \in DOMAIN readers : ~readers[i].awaited }

\* the handler of p goes on with what its prompt returned (serial writes
\* succeed)
PromptReturns(p, inp) ==
    \/ PairResponse(p, inp, TRUE)
    \/ AskDeviceId(p, inp)
    \/ EnterDeviceId(p, inp, TRUE)
    \/ AskGpio(p, inp)
    \/ EnterPin(p, inp, TRUE)
    \/ AskWifi(p, inp)
    \/ EnterSsid(p, inp)
    \/ EnterPassword(p, inp)

\* handle_device reads a line; the line of the pairing prompt makes it call
\* get_user_input_with_timeout (line 270)
ConsoleRead(p, line) ==
    /\ ReadLine(p, line)
    /\ stdin_readers' = Started(stdin_readers, p, hpc'[p])
    /\ UNCHANGED script

\* the timeout of a prompt expires (line 119): the prompt returns None
PromptTimeout(p) ==
    /\ hpc[p] \in PromptAwaits
    /\ Cardinality(Stale(stdin_readers)) < MaxStale
    /\ PromptReturns(p, PyNone)
    /\ stdin_readers' = Started(Abandoned(stdin_readers, p), p, hpc'[p])
    /\ UNCHANGED script

\* the operator enters a line: the oldest thread blocked in input() takes
\* it; the handler that awaits this call goes on with it, and the line is
\* lost when no handler awaits the call any more
OperatorLines == {JS("Y"), JS("N")}

OperatorTypes(inp) ==
    /\ stdin_readers # << >>
    /\ UNCHANGED script
    /\ LET r == Head(stdin_readers) IN
       IF r.awaited
       THEN /\ PromptReturns(r.port, inp)
            /\ stdin_readers' = Started(Tail(stdin_readers), r.port, hpc'[r.port])
       ELSE /\ stdin_readers' = Tail(stdin_readers)
            /\ UNCHANGED << mgrVars, serial_ports, stats, ser, hpc, cancelled,
                            handlerLocals, wire, now, supVars >>

(***************************************************************************)
(* SpecConsole: the operator console shared by the handlers.  Two ports    *)
(* are plugged in, both devices ask for pairing; the operator answers the  *)
(* prompts or lets them time out.                                          *)
(***************************************************************************)
ConsoleLines ==
    { TextLine({"REQ", "RECV"}, "", ""), TextLine({"TYPEY"}, "", "") }

NextConsole ==
    \/ \E p \in Ports : HandlerOpened(p, TRUE)
    \/ \E p \in Ports, line \in ConsoleLines : ConsoleRead(p, line)
    \/ \E p \in Ports : PromptTimeout(p)
    \/ \E inp \in OperatorLines : OperatorTypes(inp)
    \/ GetMother("s1")
    \/ Poll
    \/ Reconcile
    \/ \E p \in Ports : Attach(p)

SpecConsole == Init /\ [][NextConsole]_vars

(***************************************************************************)
(* trigger_ota_multi.py, lines 40-51, step by step: open(ota_file, 'w')    *)
(* creates the file, json.dump fills the buffer and the end of the with    *)
(* block flushes it.  A file removed in between stays open in the script   *)
(* and what is written to it is gone with it.                              *)
(***************************************************************************)
MULTI_FILE == "esp_ota_command_7.json"

ScriptCommand ==
    [exists |-> TRUE,
     json |-> ParsedObject([device_id |-> JI(7), firmware |-> JS("fw.bin")])]

\* line 49
OpenTrigger(f) ==
    /\ created < MaxTriggers
    /\ disk[f] = NoFile
    /\ disk' = [disk EXCEPT ![f] = BeingWritten]
    /\ created' = created + 1
    /\ UNCHANGED << mgrVars, serial_ports, stats, ser, hpc, cancelled,
                    handlerLocals, wire, now, spc, ota_files, ota_tasks,
                    attached, leaked, stdin_readers, script >>

\* lines 50-51
WriteTrigger(f) ==
    /\ HasWriter(disk[f])
    /\ disk' = [disk EXCEPT ![f] = IF disk[f].exists THEN ScriptCommand
                                   ELSE NoFile]
    /\ UNCHANGED << mgrVars, serial_ports, stats, ser, hpc, cancelled,
                    handlerLocals, wire, now, spc, ota_files, created,
                    ota_tasks, attached, leaked, stdin_readers, script >>

(***************************************************************************)
(* SpecTrigger: the trigger script runs beside the listener.  One port is  *)
(* plugged in; the script is run up to MaxTriggers times for device 7.     *)
(***************************************************************************)
NextTrigger ==
    \/ HandlerOpened("p1", TRUE)
    \/ \E i \in 1..MaxTriggers : DispatchStart(i)
    \/ \E i \in 1..MaxTriggers, wok \in BOOLEAN : DispatchWrite(i, wok)
    \/ GetMother("s1")
    \/ Poll
    \/ ProcessFile
    \/ Resume
    \/ Reconcile
    \/ OpenTrigger(MULTI_FILE)
    \/ WriteTrigger(MULTI_FILE)
    \/ Attach("p1")

SpecTrigger == Init /\ [][NextTrigger]_vars


(***************************************************************************)
(* Properties.                                                             *)
(***************************************************************************)
HasAnswerKey(payload) == "Ans" \in DOMAIN payload \/ "Id" \in DOMAIN payload

IsJsonObjectLine(line) == ~line.empty /\ line.brace /\ line.json.ok

\* a POST for this payload has just been issued on port p, carrying the
\* manager's session id, and the handler waits for its reply
PostIssued(p, payload) ==
    /\ http[p] = NoReq
    /\ http'[p] # NoReq
    /\ http'[p].payload = payload
    /\ "sessionId" \in DOMAIN http'[p].body
    /\ http'[p].body["sessionId"] = JS(session_id)
    /\ \A k \in DOMAIN payload \ {"sessionId"} : http'[p].body[k] = payload[k]
    /\ hpc'[p] = "post"
    /\ \A q \in Ports \ {p} : http'[q] = http[q]

\* the markers the pairing code of port p acts on in the current state
MarkersActedOn(p) ==
    {"RECV"}
    \cup (IF in_pairing_mode[p]
          THEN {"DID", "MAC", "MOTHER", "TYPEY", "TYPEy"} ELSE {})
    \cup (IF in_pairing_mode[p] /\ now < pairing_cooldown_until[p]
          THEN {"REQ"} ELSE {})

\* the lines that start with "{", parse as a JSON object and have the key
\* Ans or Id
AnswerLines ==
    { line \in Lines : IsJsonObjectLine(line) /\ HasAnswerKey(line.json.val) }

\* those of them with neither the OTA nor the CONFIG key
PlainAnswerLines ==
    { line \in AnswerLines :
        "OTA" \notin DOMAIN line.json.val /\ "CONFIG" \notin DOMAIN line.json.val }

\* C1 as stated: every line that starts with "{", parses as a JSON object and
\* has the key Ans or Id makes the handler issue exactly one POST that carries
\* the session id, whatever its other keys and whatever the pairing phase.
C1_EveryAnswerLineRelayed ==
    [][\A p \in Ports :
          hpc[p] = "readline"
          => \A line \in AnswerLines :
                ReadLine(p, line) => PostIssued(p, line.json.val)]_vars

\* C1 amended: such a line is relayed exactly once (one POST with the session
\* id, and the handler waits for the reply) when it has neither the OTA nor
\* the CONFIG key and the pairing code does not take it; and a POST is only
\* ever issued for such a line.  This holds in every pairing phase.
C1_AnswerLineRelayedOnce ==
    [][\A p \in Ports :
          /\ hpc[p] = "readline"
             => \A line \in PlainAnswerLines :
                   (line.mk \cap MarkersActedOn(p) = {} /\ ReadLine(p, line))
                   => PostIssued(p, line.json.val)
          /\ (http'[p] # http[p] /\ http'[p] # NoReq)
             => \E line \in AnswerLines :
                   ReadLine(p, line) /\ PostIssued(p, line.json.val)]_vars

\* C1 witness: a POST is in flight on a port that is in pairing mode, inside
\* the cooldown window of an earlier handshake
C1_Witness ==
    \E p \in Ports :
        /\ http[p] # NoReq
        /\ in_pairing_mode[p]
        /\ now < pairing_cooldown_until[p]

FailedReplies ==
    { reply \in Replies : reply.kind # "http" \/ reply.status # 200 }

\* C2: a non-200 reply or a failed HTTP call adds exactly 1 to errors, leaves
\* answers_processed alone, writes no frame to any port and leaves no request
\* in flight for that frame (the handler goes back to reading; no retry).
C2_FailedRelayCountsOneError ==
    [][\A p \in Ports, reply \in FailedReplies, wok \in BOOLEAN :
          (hpc[p] = "post" /\ HttpReply(p, reply, wok))
          => /\ stats'.errors = stats.errors + 1
             /\ stats'.answers_processed = stats.answers_processed
             /\ wire' = wire
             /\ http'[p] = NoReq
             /\ hpc'[p] = "readline"]_vars

\* C2 witness: a relay has failed and nothing was answered
C2_Witness ==
    /\ stats.errors = 1
    /\ stats.answers_processed = 0
    /\ \E p \in Ports : hpc[p] = "readline" /\ wire[p] = << >> /\ device_id[p] # Unbound

OkReplies ==
    { reply \in Replies : reply.kind = "http" /\ reply.status = 200 }

ObjectReplies ==
    { reply \in OkReplies : reply.body.ok /\ reply.body.dict }

\* C3 as stated: every 200 reply adds exactly 1 to answers_processed and
\* writes exactly one response frame, to the port the answer came from.
C3_Every200Answered ==
    [][\A p \in Ports, reply \in OkReplies, wok \in BOOLEAN :
          (hpc[p] = "post" /\ HttpReply(p, reply, wok))
          => /\ stats'.answers_processed = stats.answers_processed + 1
             /\ Len(wire'[p]) = Len(wire[p]) + 1
             /\ \A q \in Ports \ {p} : wire'[q] = wire[q]]_vars

\* C3 amended: a 200 reply whose body is a JSON object adds exactly 1 to
\* answers_processed and none to errors, and writes exactly one response
\* frame to the port the answer came from unless the serial write fails (then
\* none); whatever the reply, nothing is written to another port.
C3_ObjectReplyAnswered ==
    [][\A p \in Ports, reply \in Replies, wok \in BOOLEAN :
          (hpc[p] = "post" /\ HttpReply(p, reply, wok))
          => /\ \A q \in Ports \ {p} : wire'[q] = wire[q]
             /\ reply \in ObjectReplies
                  => /\ stats'.answers_processed = stats.answers_processed + 1
                     /\ stats'.errors = stats.errors
                     /\ Len(wire'[p]) = Len(wire[p]) + (IF wok THEN 1 ELSE 0)
                     /\ wok => "c" \in DOMAIN wire'[p][Len(wire'[p])]]_vars

\* C3 witness: an answer of p2 was answered on p2 while p1, registered first,
\* is open and got nothing
C3_Witness ==
    /\ stats.answers_processed >= 1
    /\ Len(wire["p2"]) = 1
    /\ wire["p1"] = << >>
    /\ serial_ports = << "p1", "p2" >>
    /\ ser["p1"] = "open"

\* the response the claim describes
ClaimedResponse(inbound, reply) ==
    [Id |-> IF "Id" \in DOMAIN inbound THEN inbound["Id"]
            ELSE Get(reply, "id", JI(0)),
     c |-> Get(reply, "code", JI(0)),
     Did |-> Get(inbound, "Did", JI(0))]

\* C4: the response frame written for an object reply is the function of the
\* inbound frame and the reply the claim gives: Id is the inbound Id when
\* present and else the backend's id (0 without one), c the backend's code
\* (0 without one), Did the inbound Did.
C4_ResponseIsClaimedFunction ==
    [][\A p \in Ports, reply \in ObjectReplies :
          (hpc[p] = "post" /\ HttpReply(p, reply, TRUE))
          => wire'[p] = Append(wire[p],
                               ClaimedResponse(http[p].payload, reply.body.val))]_vars

Finished(i) == i \in DOMAIN ota_tasks /\ ota_tasks[i].pc = "done"

\* C5: every successful dispatch adds exactly 1 to ota_updates: a dispatch
\* that returned True was counted once, and when every dispatch scheduled so
\* far has returned True the counter equals their number.
C5_OneCountPerSuccessfulDispatch ==
    /\ \A i \in DOMAIN ota_tasks :
          (Finished(i) /\ ota_tasks[i].result = "true")
          => ota_tasks[i].counted = 1
    /\ (\A i \in DOMAIN ota_tasks :
           Finished(i) /\ ota_tasks[i].result = "true")
       => stats.ota_updates = Len(ota_tasks)

\* C6: a dispatch that ran while its port was not registered, or whose
\* port's handle was closed, returned False, wrote nothing and changed no
\* counter.
C6_ClosedPortDispatchFailsSilently ==
    \A i \in DOMAIN ota_tasks :
        (/\ Finished(i)
         /\ ota_tasks[i].result # "cancelled"
         /\ ~ota_tasks[i].found \/ ota_tasks[i].ser_closed)
        => /\ ota_tasks[i].result = "false"
           /\ ota_tasks[i].wrote = 0
           /\ ota_tasks[i].counted = 0

\* C7: no exception leaves the dispatcher: a finished dispatch has returned
\* True or False (or was cancelled at teardown before it finished).
C7_DispatcherNeverRaises ==
    \A i \in DOMAIN ota_tasks :
        Finished(i) => ota_tasks[i].result \in {"true", "false", "cancelled"}

\* the decoded status frames with this value of the OTA key
OtaStatusLines(status) ==
    { line \in Lines : /\ IsJsonObjectLine(line)
                       /\ "OTA" \in DOMAIN line.json.val
                       /\ line.json.val["OTA"] = JS(status) }

OtaSuccessLines == OtaStatusLines("OTA_SUCCESS")

OtaErrorLines == OtaStatusLines("OTA_ERROR")

\* C8: reading a status frame with OTA = OTA_SUCCESS adds exactly 1 to
\* ota_successes and nothing to ota_failures; one with OTA = OTA_ERROR adds
\* exactly 1 to ota_failures and nothing to ota_successes; neither changes
\* ota_updates, answers_processed or errors.
C8_StatusFrameCounts ==
    [][\A p \in Ports :
          hpc[p] = "readline"
          => /\ \A line \in OtaSuccessLines :
                   ReadLine(p, line)
                   => stats' = [stats EXCEPT !.ota_successes = @ + 1]
             /\ \A line \in OtaErrorLines :
                   ReadLine(p, line)
                   => stats' = [stats EXCEPT !.ota_failures = @ + 1]]_vars

\* C8 witness: one success frame and one error frame have been counted
C8_Witness ==
    /\ stats.ota_successes = 1
    /\ stats.ota_failures = 1
    /\ stats.ota_updates = 0

PairingMarkers == {"REQ", "RECV", "DID", "MAC", "MOTHER", "TYPEY"}

PairingStateUnchanged(p) ==
    /\ in_pairing_mode'[p] = in_pairing_mode[p]
    /\ pairing_device_id'[p] = pairing_device_id[p]
    /\ pairing_mac'[p] = pairing_mac[p]
    /\ pairing_cooldown_until'[p] = pairing_cooldown_until[p]
    /\ hpc'[p] # "ask_pair"

\* C9: a pairing-marker line read on a port before its cooldown has expired
\* leaves the pairing state of the port as it was and prompts nobody; a
\* pairing-request line read once the cooldown has expired puts the port in
\* pairing mode with device id and MAC cleared.
C9_CooldownDiscardsMarkers ==
    [][\A p \in Ports, line \in MarkerLines :
          /\ (/\ line.mk \cap PairingMarkers # {}
              /\ now < pairing_cooldown_until[p]
              /\ ReadLine(p, line))
             => PairingStateUnchanged(p)
          /\ (/\ "RECV" \in line.mk
              /\ now >= pairing_cooldown_until[p]
              /\ ReadLine(p, line))
             => /\ in_pairing_mode'[p]
                /\ pairing_device_id'[p] = PyNone
                /\ pairing_mac'[p] = PyNone]_vars

\* C10 as stated: whenever the operator is being asked whether to pair, the
\* device id and the MAC address of the handshake have both been collected.
C10_PromptOnlyAfterIdAndMac ==
    \A p \in Ports :
        hpc[p] = "ask_pair"
        => Truthy(pairing_device_id[p]) /\ Truthy(pairing_mac[p])

\* C10 amended: the operator is prompted only by a Type 'Y' / Type 'y' line
\* read while the port is in pairing mode, and only a pairing-request line
\* puts a port in pairing mode; the Device ID, MAC Address and
\* become-the-mother lines are not required.
C10_PromptOnlyInPairingMode ==
    [][\A p \in Ports :
          /\ (hpc'[p] = "ask_pair" /\ hpc[p] # "ask_pair")
             => /\ in_pairing_mode[p]
                /\ in_pairing_mode'[p]
                /\ \E line \in Lines :
                      /\ line.mk \cap {"TYPEY", "TYPEy"} # {}
                      /\ ReadLine(p, line)
          /\ (in_pairing_mode'[p] /\ ~in_pairing_mode[p])
             => \E line \in Lines : "RECV" \in line.mk /\ ReadLine(p, line)]_vars

\* C10 witness: the operator is asked whether to pair although neither the
\* device id nor the MAC address was collected
C10_Witness ==
    \E p \in Ports :
        /\ hpc[p] = "ask_pair"
        /\ in_pairing_mode[p]
        /\ pairing_device_id[p] = PyNone
        /\ pairing_mac[p] = PyNone

\* where a handler is after the operator has accepted the pairing
FollowUpPcs ==
    {"ask_devid", "enter_devid", "ask_gpio", "pin", "ask_wifi", "ssid",
     "password", "ser_write"}

\* the pairing context of port p has just been destroyed
ContextDestroyed(p) ==
    /\ ~in_pairing_mode'[p]
    /\ pairing_device_id'[p] = PyNone
    /\ pairing_mac'[p] = PyNone
    /\ pairing_cooldown_until'[p] = now + COOLDOWN

\* C11: whenever the handler of a port goes back to reading lines from a
\* handshake that had reached the operator prompt (the operator timed out,
\* rejected, or accepted and the follow-up prompts ended in whatever way,
\* a fault while a config command is built or written included), pairing
\* mode is off, the collected id and MAC are cleared and the cooldown expiry
\* is set.
C11_HandshakeEndsInCooldown ==
    [][\A p \in Ports :
          /\ hpc[p] = "ask_pair"
             => \A inp \in YesNoInputs :
                   (PairResponse(p, inp, TRUE) /\ hpc'[p] = "readline")
                   => ContextDestroyed(p)
          /\ (hpc[p] \in FollowUpPcs /\ hpc'[p] = "readline")
             => ContextDestroyed(p)]_vars

IsConfigCmd(frame) == "CONFIG_CMD" \in DOMAIN frame

\* C12: a CONFIG_CMD frame is written to a port only during the follow-up
\* prompts of a handshake, and these are entered only when the operator's
\* answer to the pairing prompt was Y or YES; when the operator does not
\* answer, nothing is written and the handshake is over.
C12_ConfigOnlyAfterYes ==
    [][\A p \in Ports :
          /\ (/\ Len(wire'[p]) > Len(wire[p])
              /\ IsConfigCmd(wire'[p][Len(wire'[p])]))
             => hpc[p] \in FollowUpPcs
          /\ (hpc'[p] \in FollowUpPcs /\ hpc[p] \notin FollowUpPcs)
             => \E inp \in YesNoInputs :
                   /\ Truthy(inp)
                   /\ Upper(inp.v) \in {"Y", "YES"}
                   /\ PairResponse(p, inp, TRUE)
          /\ hpc[p] = "ask_pair"
             => \A wok \in BOOLEAN :
                   PairResponse(p, PyNone, wok)
                   => wire' = wire /\ hpc'[p] = "readline"]_vars

\* C12 witness: a CONFIG_CMD frame is on the wire of a port
C12_Witness ==
    \E p \in Ports :
        \E i \in DOMAIN wire[p] : IsConfigCmd(wire[p][i])

FilesOnDisk == { f \in TriggerNames : disk[f].exists }

\* C13: a trigger file is off the disk from the moment its dispatch is
\* scheduled, and no trigger file causes two dispatches: the dispatches
\* scheduled so far and the trigger files still on disk are together no more
\* than the trigger files created so far.
C13_TriggerConsumedAtMostOnce ==
    Len(ota_tasks) + Cardinality(FilesOnDisk) <= created

\* C13 witness: one trigger file was created, its dispatch has finished, the
\* file is gone and the supervisor has polled again since
C13_Witness ==
    /\ created = 1
    /\ Len(ota_tasks) = 1
    /\ Finished(1)
    /\ FilesOnDisk = {}
    /\ spc = "files"
    /\ ota_files = << >>

\* C14: processing a trigger file that is not JSON removes the file, creates
\* no dispatch and changes no counter, and the supervisor goes on with the
\* remaining trigger files of the cycle (after which it reconciles the ports).
C14_MalformedTriggerRemoved ==
    [][(/\ spc = "files"
        /\ ota_files # << >>
        /\ disk[Head(ota_files)].exists
        /\ ~disk[Head(ota_files)].json.ok
        /\ ProcessFile)
       => /\ ~disk'[Head(ota_files)].exists
          /\ ota_tasks' = ota_tasks
          /\ stats' = stats
          /\ spc' = "files"
          /\ ota_files' = Tail(ota_files)
          /\ running']_vars

\* C14 witness: the first trigger file of the cycle was consumed without a
\* dispatch and the second one is about to be processed in the same cycle
C14_Witness ==
    /\ spc = "files"
    /\ ota_files = << "esp_ota_command_7.json" >>
    /\ FilesOnDisk = {"esp_ota_command_7.json"}
    /\ created = 2
    /\ ota_tasks = << >>
    /\ stats.ota_updates = 0
    /\ serial_ports # << >>

\* the handler task of port p exists and has not terminated
Live(p) == hpc[p] \notin {"none", "done"}

\* C15: one reconciliation starts a handler for each discovered port that
\* is not in the active set, leaves the running handler of a discovered
\* port alone, and cancels and removes from the active set the handler of
\* each port that is no longer discovered.
C15_DiscoveryReconciliation ==
    [][Reconcile
       => \A p \in Ports :
             /\ (p \in attached /\ p \notin active_devices)
                => /\ hpc'[p] = "opening"
                   /\ ~cancelled'[p]
                   /\ p \in active_devices'
             /\ (p \in attached /\ p \in active_devices /\ Live(p))
                => /\ hpc'[p] = hpc[p]
                   /\ cancelled'[p] = cancelled[p]
                   /\ p \in active_devices'
             /\ p \notin attached
                => /\ p \notin active_devices'
                   /\ hpc'[p] = hpc[p]
                   /\ (p \in active_devices /\ Live(p)) => cancelled'[p]]_vars

\* C15 witness: p1 and p2 both had a handler; p1 is no longer discovered, its
\* handler is being cancelled and it has left the active set, while the
\* handler of p2 goes on
C15_Witness ==
    /\ attached = {"p2"}
    /\ active_devices = {"p2"}
    /\ cancelled["p1"]
    /\ hpc["p1"] = "readline"
    /\ hpc["p2"] = "readline"
    /\ ~cancelled["p2"]

\* C16: a reconciliation that finds a terminated handler in the active set
\* starts a new handler for the port if the port is discovered, and else
\* drops the port from the active set without starting a handler.
C16_CrashRecovery ==
    [][Reconcile
       => \A p \in active_devices :
             hpc[p] = "done"
             => IF p \in attached
                THEN hpc'[p] = "opening" /\ p \in active_devices'
                ELSE hpc'[p] = "done" /\ p \notin active_devices']_vars

\* C16 witness: the handler of p1 has terminated (its port could not be
\* opened) while p1 is discovered and in the active set, and the supervisor
\* is about to reconcile
C16_Witness ==
    /\ "p1" \in attached
    /\ "p1" \in active_devices
    /\ hpc["p1"] = "done"
    /\ spc = "files"
    /\ ota_files = << >>

\* C17: once the handler task of a port has exited, the port has no entry
\* in the registry, the handle the handler opened is not open, and no handle
\* was opened for the handler that nobody closes.
C17_NoHandleLeak ==
    \A p \in Ports :
        hpc[p] = "done"
        => /\ p \notin Registered
           /\ ser[p] # "open"
           /\ p \notin leaked

\* C18: whatever operation the handler of a port is in, the supervisor can
\* start its next cycle when its sleep is over, and the handler of any other
\* port that waits for a line can process it.
C18_CrossPortIndependence ==
    \A p \in Ports :
        Live(p)
        => /\ (spc = "sleep" /\ running /\ ReadyQueueEmpty) => ENABLED Poll
           /\ \A q \in Ports \ {p} :
                 (hpc[q] = "readline" /\ ~cancelled[q] /\ running /\ spc # "files")
                 => ENABLED ReadLine(q, EmptyLine)


(***************************************************************************)
(* C19: while a port is inside the operator prompts of a handshake (from   *)
(* the pairing question until the sub-flow ends), no step relays an answer *)
(* frame of that port, processes a CONFIG or OTA status frame of it or     *)
(* changes the counters on its behalf; the frames read afterwards are      *)
(* processed as usual.                                                     *)
(***************************************************************************)
InSubFlow(p) == hpc[p] \in {"ask_pair"} \cup FollowUpPcs

C19_NoFrameProcessedDuringPrompts ==
    [][\A p \in Ports :
          InSubFlow(p)
          => /\ http'[p] = http[p]
             /\ device_id'[p] = device_id[p]
             /\ stats' = stats]_vars

\* an answer frame is in flight after a handshake of the port has ended
C19_Witness ==
    \E p \in Ports :
        /\ http[p] # NoReq
        /\ ~in_pairing_mode[p]
        /\ pairing_cooldown_until[p] > 0


(***************************************************************************)
(* Per-port ordering of the relay.  A port has at most one relay under     *)
(* way: the request is posted by the step that reads the answer line, the  *)
(* handler stays at the POST until the reply is handled, a response frame  *)
(* written meanwhile is the one of the pending request, and only then is   *)
(* the next line of the port read.                                         *)
(***************************************************************************)
RelayInOrder(p) ==
    /\ http'[p] # NoReq => hpc'[p] = "post"
    /\ (http[p] = NoReq /\ http'[p] # NoReq)
       => /\ hpc[p] = "readline"
          /\ \E line \in PlainAnswerLines :
                http'[p] = AnswerRequest(line.json.val, session_id)
    /\ hpc[p] = "post"
       => /\ http[p] # NoReq
          /\ http'[p] \in {http[p], NoReq}
          /\ wire'[p] # wire[p]
             => /\ http'[p] = NoReq
                /\ \E body \in {r.body.val : r \in ObjectReplies} :
                      wire'[p] = Append(wire[p],
                          send_device_response(http[p].payload, body))
          /\ http'[p] = NoReq => hpc'[p] = "readline"

RelayCompletes(p) == hpc[p] = "post" /\ http'[p] = NoReq

\* C20 as stated: on one port the relays and their responses are in the
\* order of the lines read, and the relay of a frame completes, with its
\* response written or an error counted, before the next frame is read.
C20_CompletesWithResponseOrError ==
    [][\A p \in Ports :
          /\ RelayInOrder(p)
          /\ RelayCompletes(p)
             => \/ wire'[p] # wire[p]
                \/ stats'.errors = stats.errors + 1]_vars

\* C20: on one port the relays and their responses are in the order of the
\* lines read, and the relay of a frame completes, counted as processed or
\* as an error, before the next frame is read; a response frame is written
\* only for some of the processed ones.
C20_PerPortOrdering ==
    [][\A p \in Ports :
          /\ RelayInOrder(p)
          /\ RelayCompletes(p)
             => \/ stats'.answers_processed = stats.answers_processed + 1
                \/ stats'.errors = stats.errors + 1]_vars

\* one port has relayed MaxCount answer frames one after the other, and the
\* response to the last one is on its wire
C20_Witness ==
    \E p \in Ports :
        /\ hpc[p] = "readline"
        /\ wire[p] # << >>
        /\ stats.answers_processed = MaxCount
        /\ \A q \in Ports \ {p} : device_id[q] = Unbound

(***************************************************************************)
(* C21: when the operator has accepted the WiFi update and typed an SSID,  *)
(* a non-empty password makes the handler write exactly one                *)
(* SET_WIFI_CONFIG frame with that SSID and password to the port,          *)
(* whatever the port processed before the handshake.                       *)
(***************************************************************************)
C21_WifiFrameWritten ==
    [][\A p \in Ports :
          /\ hpc[p] = "password"
             => \A inp \in TextInputs :
                   (Truthy(inp) /\ EnterPassword(p, inp))
                   => /\ hpc'[p] = "ser_write"
                      /\ chain'[p].wifi_config.SSID = JS(chain[p].wifi_ssid)
                      /\ chain'[p].wifi_config.Password = JS(inp.v)
          /\ hpc[p] = "ser_write"
             => (WifiWrite(p, TRUE)
                 => wire'[p] = Append(wire[p], chain[p].wifi_config))]_vars

(***************************************************************************)
(* C22: the Did of every CONFIG_CMD frame written during a handshake is    *)
(* the device id collected from the "Device ID:" line of that handshake,   *)
(* whenever one was collected (and it reads as an integer).                *)
(***************************************************************************)
CollectedId(p) ==
    /\ Truthy(pairing_device_id[p])
    /\ ParseInt(pairing_device_id[p].v).ok

C22_DidIsCollectedId ==
    [][\A p \in Ports :
          (/\ hpc[p] \in FollowUpPcs
           /\ Len(wire'[p]) > Len(wire[p])
           /\ IsConfigCmd(wire'[p][Len(wire'[p])])
           /\ CollectedId(p))
          => wire'[p][Len(wire'[p])].Did
                = JI(ParseInt(pairing_device_id[p].v).n)]_vars

(***************************************************************************)
(* C23: the first pin entry that is not an integer in 0..48, or that times *)
(* out, ends the pin prompts with nothing written and the handshake goes   *)
(* on with the WiFi prompt; a SET_GPIO_CONFIG frame is written only by the *)
(* seventh valid entry in a row, it is written then (when the serial write *)
(* succeeds), and it carries all seven pin fields, each in 0..48.          *)
(***************************************************************************)
PinEntryValid(inp) ==
    /\ Truthy(inp)
    /\ ParseInt(inp.v).ok
    /\ ParseInt(inp.v).n \in 0..48

PinsEntered(p) == Cardinality(DOMAIN chain[p].gpio_config) - 2

IsGpioFrame(frame) ==
    /\ IsConfigCmd(frame)
    /\ frame.CONFIG_CMD = JS("SET_GPIO_CONFIG")

CompleteGpioFrame(frame) ==
    /\ DOMAIN frame = {"CONFIG_CMD", "Did"} \cup {GpioKeys[i] : i \in DOMAIN GpioKeys}
    /\ \A i \in DOMAIN GpioKeys :
          frame[GpioKeys[i]] \in {JI(n) : n \in 0..48}

DeviceIdEntryValid(inp) ==
    /\ Truthy(inp)
    /\ ParseInt(inp.v).ok
    /\ ParseInt(inp.v).n \in 1..255

IsDeviceIdFrame(frame) ==
    /\ IsConfigCmd(frame)
    /\ frame.CONFIG_CMD = JS("SET_DEVICE_ID")

C24_DeviceIdValidated ==
    [][\A p \in Ports :
          /\ hpc[p] = "enter_devid"
             => \A inp \in NumberInputs, wok \in BOOLEAN :
                   EnterDeviceId(p, inp, wok)
                   => /\ wire' # wire
                         => /\ DeviceIdEntryValid(inp)
                            /\ Len(wire'[p]) = Len(wire[p]) + 1
                            /\ IsDeviceIdFrame(wire'[p][Len(wire'[p])])
                            /\ wire'[p][Len(wire'[p])].DeviceId
                                  = JI(ParseInt(inp.v).n)
                      /\ ~DeviceIdEntryValid(inp)
                         => wire' = wire /\ hpc'[p] = "ask_gpio"
          /\ (/\ hpc[p] \in FollowUpPcs
              /\ Len(wire'[p]) > Len(wire[p])
              /\ IsDeviceIdFrame(wire'[p][Len(wire'[p])]))
             => hpc[p] = "enter_devid"]_vars

\* a SET_DEVICE_ID frame is on the wire and the GPIO question is asked
C24_Witness ==
    \E p \in Ports :
        /\ hpc[p] = "ask_gpio"
        /\ \E i \in DOMAIN wire[p] : IsDeviceIdFrame(wire[p][i])

(***************************************************************************)
(* C25: the handle of a port is used only by the handler task that owns    *)
(* it: while the handler of a port is running, no OTA dispatch task holds  *)
(* a write to that handle and no step of another task puts a frame on the  *)
(* port.                                                                   *)
(***************************************************************************)
C25_HandleUsedByOwnerOnly ==
    [][\A p \in Ports :
          Live(p)
          => /\ \A i \in DOMAIN ota_tasks :
                   ~(ota_tasks[i].pc = "writing" /\ ota_tasks[i].port = p)
             /\ wire'[p] # wire[p] => ota_tasks' = ota_tasks]_vars

(***************************************************************************)
(* C26: a line the operator enters while a prompt is outstanding goes to   *)
(* that prompt: the call that takes it is still awaited by a handler (a    *)
(* prompt that timed out takes no later line), and no other port has a     *)
(* prompt outstanding that the line could be meant for.                    *)
(***************************************************************************)
Outstanding == { i \in DOMAIN stdin_readers : stdin_readers[i].awaited }

C26_LineGoesToOutstandingPrompt ==
    [][\A inp \in OperatorLines :
          (OperatorTypes(inp) /\ Outstanding # {})
          => /\ Head(stdin_readers).awaited
             /\ \A i \in Outstanding :
                   stdin_readers[i].port = Head(stdin_readers).port]_vars

(***************************************************************************)
(* C27: every trigger the script creates for a device leads to exactly one *)
(* dispatch for that device with the same firmware, provided a port is     *)
(* registered when the supervisor consumes it, however the poll falls      *)
(* between the creation and the writing of the file: a file the script is  *)
(* still writing is left alone until it is written, and the consumption of *)
(* a written file schedules one dispatch with its device id and firmware.  *)
(***************************************************************************)
Written27(file) == file.exists /\ ~HasWriter(file) /\ file.json.ok

C27_EveryTriggerDispatchedOnce ==
    [][\A f \in TriggerNames :
          /\ (HasWriter(disk[f]) /\ disk[f].exists /\ serial_ports # << >>)
             => \/ disk'[f] = disk[f]
                \/ disk'[f] = ScriptCommand
          /\ (Written27(disk[f]) /\ ~disk'[f].exists /\ serial_ports # << >>)
             => /\ Len(ota_tasks') = Len(ota_tasks) + 1
                /\ ota_tasks'[Len(ota_tasks')].device_id
                      = disk[f].json.val.device_id
                /\ ota_tasks'[Len(ota_tasks')].firmware
                      = disk[f].json.val.firmware]_vars

(***************************************************************************)
(* C28: at the end of every supervisor cycle the ports that have a handler *)
(* task are the ports discovered in that cycle: the active set equals the  *)
(* discovered set and a port has a running handler that is not being       *)
(* cancelled exactly when it was discovered; and a handler is started only *)
(* for a port whose previous handler task, if any, has terminated, so no   *)
(* port ever has two live handler tasks.                                   *)
(***************************************************************************)
C28_HandlersMatchDiscovery ==
    [][(spc = "files" /\ Reconcile)
       => /\ active_devices' = attached
          /\ \A p \in Ports :
                /\ (hpc'[p] \notin {"none", "done"} /\ ~cancelled'[p])
                   <=> p \in attached
                /\ (p \in attached /\ p \notin active_devices) => ~Live(p)]_vars

\* p1 was unplugged and plugged in again: its first handler has closed its
\* handle and the cycle has started a second one
C28_Witness ==
    /\ spc = "sleep"
    /\ hpc["p1"] = "opening"
    /\ ser["p1"] = "closed"
    /\ "p1" \in active_devices

(***************************************************************************)
(* C29: a handler's cleanup closes and deregisters only the handle this    *)
(* handler opened.  The registry entry of a port always belongs to the     *)
(* port's current handler task: there is none while that task has not yet  *)
(* opened the port or has terminated, so the entry the cleanup of lines    *)
(* 449-457 finds under the port is the task's own; and an entry leaves the *)
(* registry only in the step in which the handler that made it terminates. *)
(***************************************************************************)
RegisteredAfter == { serial_ports'[i] : i \in DOMAIN serial_ports' }

C29_CleanupOwnHandleOnly ==
    [][\A p \in Ports :
          /\ hpc'[p] \in {"none", "opening", "done"} => p \notin RegisteredAfter
          /\ (p \in Registered /\ p \notin RegisteredAfter)
             => /\ hpc[p] \notin {"none", "opening", "done"}
                /\ hpc'[p] = "done"]_vars

\* p1 was unplugged and plugged in again: the cancelled handler has closed
\* and deregistered its handle, and the new handler is opening the port
C29_Witness ==
    /\ "p1" \in attached
    /\ hpc["p1"] = "opening"
    /\ ~cancelled["p1"]
    /\ ser["p1"] = "closed"
    /\ "p1" \notin Registered

(***************************************************************************)
(* C30: a fault raised while a handler reads or handles one line never     *)
(* terminates it.  A handler that has opened its port leaves its loop in   *)
(* no step of the handshake specification (where nothing cancels it and    *)
(* the manager keeps running), and after a failed read, a line that is not *)
(* JSON, a failed serial write or a failure inside a prompt it is back at  *)
(* the read of the next line.                                              *)
(***************************************************************************)
InLoop(p) == hpc[p] \notin {"none", "opening", "done"}

C30_FaultsDoNotStopHandler ==
    [][\A p \in Ports :
          InLoop(p)
          => /\ hpc'[p] \notin {"none", "opening", "done"}
             /\ hpc[p] = "readline"
                => /\ ReadFault(p) => hpc'[p] = "readline"
                   /\ ReadLine(p, BrokenJsonLine) => hpc'[p] = "readline"
             /\ hpc[p] = "ask_pair"
                => (PairResponse(p, JS("Y"), FALSE) => hpc'[p] = "readline")
             /\ hpc[p] = "enter_devid"
                => (EnterDeviceId(p, JS("7"), FALSE)
                    => hpc'[p] \in {"readline", "ask_gpio"})
             /\ hpc[p] = "pin"
                => (EnterPin(p, JS("7"), FALSE) => hpc'[p] \in {"readline", "pin"})
             /\ hpc[p] = "ser_write"
                => (WifiWrite(p, FALSE) => hpc'[p] = "readline")
             /\ (hpc[p] = "password" /\ device_id[p] = Unbound)
                => (EnterPassword(p, JS("net")) => hpc'[p] = "readline")]_vars

\* the write of a configuration command has failed after the operator
\* accepted the pairing: the handler is back at its read, still in pairing
\* mode
C30_Witness ==
    \E p \in Ports :
        /\ hpc[p] = "readline"
        /\ in_pairing_mode[p]
        /\ wire[p] # << >>
        /\ "raw" \in DOMAIN wire[p][1]
        /\ running
        /\ ~cancelled[p]

(***************************************************************************)
(* C31: lines that carry no recognised content change nothing.  Outside    *)
(* pairing, a line that is not JSON, a line that starts with "{" and does  *)
(* not parse, a frame with none of the keys OTA, CONFIG, Ans and Id, a     *)
(* frame whose OTA value is neither OTA_SUCCESS nor OTA_ERROR and a CONFIG *)
(* status frame leave every counter as it is, start no POST and write no   *)
(* frame; a frame with the OTA key, whatever its other keys, is handled by *)
(* the status tracker alone: no POST, no frame, and only ota_successes or  *)
(* ota_failures may change.                                                *)
(***************************************************************************)
JsonObjectLines == { line \in Lines : IsJsonObjectLine(line) /\ line.mk = {} }

OtaLines == { line \in JsonObjectLines : "OTA" \in DOMAIN line.json.val }

InertLines ==
    { TextLine({}, "", ""), BrokenJsonLine }
    \cup { line \in JsonObjectLines :
             /\ "OTA" \notin DOMAIN line.json.val
             /\ \/ "CONFIG" \in DOMAIN line.json.val
                \/ ~HasAnswerKey(line.json.val) }
    \cup { line \in OtaLines :
             line.json.val["OTA"] \notin {JS("OTA_SUCCESS"), JS("OTA_ERROR")} }

NothingWritten == \A q \in Ports : Len(wire'[q]) <= Len(wire[q])

C31_InertLinesChangeNothing ==
    [][\A p \in Ports :
          (hpc[p] = "readline" /\ ~in_pairing_mode[p])
          => /\ \A line \in InertLines :
                   ReadLine(p, line)
                   => /\ stats' = stats
                      /\ http' = http
                      /\ NothingWritten
                      /\ hpc'[p] = "readline"
             /\ \A line \in OtaLines :
                   ReadLine(p, line)
                   => /\ http' = http
                      /\ NothingWritten
                      /\ hpc'[p] = "readline"
                      /\ stats'.answers_processed = stats.answers_processed
                      /\ stats'.errors = stats.errors
                      /\ stats'.ota_updates = stats.ota_updates]_vars

\* a CONFIG status frame has been handled (its Did is remembered) and
\* nothing else has happened on the port
C31_Witness ==
    \E p \in Ports :
        /\ hpc[p] = "readline"
        /\ device_id[p] = JI(8)
        /\ http[p] = NoReq
        /\ wire[p] = << >>
        /\ stats.answers_processed = 0
        /\ stats.errors = 0
        /\ stats.ota_successes = 0
        /\ stats.ota_failures = 0

(***************************************************************************)
(* C32: once an OTA command has been dispatched for a device id, the OTA   *)
(* session registry holds a session under that device id, and no session   *)
(* ever leaves the registry.                                               *)
(***************************************************************************)
Dispatched(i) == ota_tasks[i].pc = "done" /\ ota_tasks[i].result = "true"

C32_SessionAfterDispatch ==
    \A i \in DOMAIN ota_tasks :
        Dispatched(i) => ota_tasks[i].device_id \in DOMAIN ota_sessions

(***************************************************************************)
(* The default executor.  Every run_in_executor(None, ...) of the program  *)
(* -- ser.readline (line 210), input (line 114), ser.write -- shares one   *)
(* pool of worker threads, min(32, cpu_count + 4) of them; a call made     *)
(* while every worker is busy waits in the queue of the pool.  A thread    *)
(* blocked in input() keeps its worker until a line is typed.  The calls   *)
(* of stdin_readers are in submission order: the first MaxWorkers of them  *)
(* have a worker, the others are queued.                                   *)
(***************************************************************************)
MaxWorkers == 5

\* a worker is left for a call that returns, such as ser.readline
WorkerFree(readers) == Len(readers) < MaxWorkers

\* lines 117-119: wait_for gives up on the calls of p; a call that runs
\* keeps its thread, a call still queued is cancelled and never runs
TimedOut(readers, p) ==
    LET n == IF Len(readers) < MaxWorkers THEN Len(readers) ELSE MaxWorkers
    IN Abandoned(SubSeq(readers, 1, n), p) \o
       SelectSeq(SubSeq(readers, n + 1, Len(readers)),
                 LAMBDA r : r.port # p)

\* lines 210-212: ser.readline runs on a worker of the pool
PoolRead(p, line) ==
    /\ WorkerFree(stdin_readers)
    /\ ConsoleRead(p, line)

\* lines 117-121 with the pool: the prompt returns None
PoolTimeout(p) ==
    /\ hpc[p] \in PromptAwaits
    /\ PromptReturns(p, PyNone)
    /\ stdin_readers' = Started(TimedOut(stdin_readers, p), p, hpc'[p])
    /\ UNCHANGED script

(***************************************************************************)
(* SpecPool: two ports are plugged in, both devices ask for pairing; the   *)
(* operator answers the prompts or lets them time out.                     *)
(***************************************************************************)
NextPool ==
    \/ \E p \in Ports : HandlerOpened(p, TRUE)
    \/ \E p \in Ports, line \in ConsoleLines : PoolRead(p, line)
    \/ \E p \in Ports : PoolTimeout(p)
    \/ \E inp \in OperatorLines : OperatorTypes(inp)
    \/ GetMother("s1")
    \/ Poll
    \/ Reconcile
    \/ \E p \in Ports : Attach(p)

SpecPool == Init /\ [][NextPool]_vars

(***************************************************************************)
(* C33: a handler that entered the operator prompt resumes reading lines   *)
(* from its port, whether the operator answered or not: whenever the       *)
(* handler is back at the read of line 210, the read can be carried out.   *)
(***************************************************************************)
C33_ReadingResumesAfterPrompts ==
    \A p \in Ports :
        (hpc[p] = "readline" /\ running /\ ~cancelled[p] /\ Yielded)
            => ENABLED PoolRead(p, EmptyLine)

(***************************************************************************)
(* C34: one pairing context per port.  A pairing-request line that the     *)
(* handler reads while the port is in pairing mode, before the operator    *)
(* prompt, leaves the port in pairing mode with no device id and no MAC    *)
(* address collected, and the handler goes on reading: what was collected  *)
(* for the earlier request is gone before a later prompt can show it.      *)
(***************************************************************************)
RequestLines == { line \in Lines : IsPairingRequest(line) }

C34_RequestRestartsHandshake ==
    [][\A p \in Ports :
          (hpc[p] = "readline" /\ in_pairing_mode[p])
          => \A line \in RequestLines :
                ReadLine(p, line)
                => /\ in_pairing_mode'[p]
                   /\ pairing_device_id'[p] = PyNone
                   /\ pairing_mac'[p] = PyNone
                   /\ hpc'[p] = "readline"]_vars

\* the handler is about to read a pairing request in the middle of a
\* handshake that has collected a device id and a MAC address
C34_Witness ==
    \E p \in Ports :
        /\ in_pairing_mode[p]
        /\ Truthy(pairing_device_id[p])
        /\ Truthy(pairing_mac[p])
        /\ \E line \in RequestLines : ENABLED ReadLine(p, line)

(***************************************************************************)
(* C35: a relay that runs to completion adds exactly 1 to exactly one of   *)
(* answers_processed and errors: to answers_processed when the backend     *)
(* answered 200 with a body that parses, to errors otherwise (another      *)
(* status, a failed call, a 200 body that does not parse).  Whether the    *)
(* response frame could be written makes no difference to the counters.    *)
(***************************************************************************)
ParsedOk(reply) ==
    reply.kind = "http" /\ reply.status = 200 /\ reply.body.ok

C35_OneCounterPerRelay ==
    [][\A p \in Ports :
          hpc[p] = "post"
          => \A reply \in Replies, wok \in BOOLEAN :
                HttpReply(p, reply, wok)
                => /\ stats'.answers_processed =
                         stats.answers_processed + (IF ParsedOk(reply) THEN 1 ELSE 0)
                   /\ stats'.errors =
                         stats.errors + (IF ParsedOk(reply) THEN 0 ELSE 1)
                   /\ stats'.ota_updates = stats.ota_updates
                   /\ stats'.ota_successes = stats.ota_successes
                   /\ stats'.ota_failures = stats.ota_failures]_vars

\* two relays have completed: one was counted as processed, the other as
\* an error, and the handler is back at the read
C35_Witness ==
    /\ stats.answers_processed = 1
    /\ stats.errors = 1
    /\ \E p \in Ports :
          /\ hpc[p] = "readline"
          /\ http[p] = NoReq
          /\ device_id[p] # Unbound
          /\ wire[p] = << >>

(***************************************************************************)
(* C36: a trigger file that parses and cannot be dispatched -- no port is  *)
(* registered, or device_id or firmware is missing -- is removed when it   *)
(* is consumed: no dispatcher task is created, no counter changes, the     *)
(* supervisor goes on with the cycle.  Nothing of it is kept for later: a  *)
(* dispatcher task is only ever created by the consumption of a complete   *)
(* trigger file that is on disk while a port is registered.                *)
(***************************************************************************)
Parses(file) == file.exists /\ file.json.ok

Dispatchable(file) ==
    Parses(file) /\ IsOtaCommand(file.json.val) /\ serial_ports # << >>

C36_UndispatchableTriggerDropped ==
    [][/\ (/\ spc = "files"
           /\ ota_files # << >>
           /\ Parses(disk[Head(ota_files)])
           /\ ~Dispatchable(disk[Head(ota_files)])
           /\ ProcessFile)
          => /\ ~disk'[Head(ota_files)].exists
             /\ ota_tasks' = ota_tasks
             /\ stats' = stats
             /\ spc' = "files"
             /\ ota_files' = Tail(ota_files)
       /\ Len(ota_tasks') > Len(ota_tasks)
          => /\ spc = "files"
             /\ ota_files # << >>
             /\ Dispatchable(disk[Head(ota_files)])]_vars

\* the supervisor is about to consume a complete trigger file while no port
\* is registered
C36_Witness ==
    /\ spc = "files"
    /\ ota_files # << >>
    /\ Parses(disk[Head(ota_files)])
    /\ IsOtaCommand(disk[Head(ota_files)].json.val)
    /\ serial_ports = << >>
    /\ ENABLED ProcessFile

(***************************************************************************)
(* trigger_ota_multi.py, the command line: main (lines 76-105) and the     *)
(* loop of trigger_ota_multi (lines 40-60).  script is the run of the      *)
(* script: argv is sys.argv (argv[1] is sys.argv[0], the script's name),   *)
(* files the trigger files the run has written in the temp directory and   *)
(* status its exit status.                                                 *)
(***************************************************************************)
MaxArgs == 3

\* what the operator may type as a device id
IdArgs == {"7", "07", "8", "0", "255", "256", "x7"}

FirmwareArgs == {"fw.bin"}

RECURSIVE ArgSeqs(_)
ArgSeqs(n) ==
    IF n = 0 THEN { << >> }
    ELSE LET shorter == ArgSeqs(n - 1) IN
         shorter \cup { Append(a, id) : a \in shorter, id \in IdArgs }

ArgLists ==
    { << "trigger_ota_multi.py" >> }
    \cup { << "trigger_ota_multi.py", fw >> \o ids :
             fw \in FirmwareArgs, ids \in ArgSeqs(MaxArgs) }

\* line 88: int(arg); [ok |-> FALSE] stands for ValueError
ArgInt(arg) == CASE arg = "7" -> [ok |-> TRUE, n |-> 7]
                 [] arg = "07" -> [ok |-> TRUE, n |-> 7]
                 [] arg = "8" -> [ok |-> TRUE, n |-> 8]
                 [] arg = "0" -> [ok |-> TRUE, n |-> 0]
                 [] arg = "255" -> [ok |-> TRUE, n |-> 255]
                 [] arg = "256" -> [ok |-> TRUE, n |-> 256]
                 [] OTHER -> [ok |-> FALSE, n |-> 0]

\* line 91
invalid_ids(device_ids) ==
    SelectSeq(device_ids, LAMBDA did : did < 1 \/ did > 255)

\* a faulty script: the same device id may be given twice
DuplicatesAllowed(device_ids) == FALSE

\* line 97: len(device_ids) != len(set(device_ids))
Duplicated(device_ids) ==
    Len(device_ids) # Cardinality({ device_ids[i] : i \in DOMAIN device_ids })

\* line 47
OtaFileName(dev) == "esp_ota_command_" \o ToString(dev) \o ".json"

\* lines 41-44 and 51: what json.dump writes
OtaFileContent(dev, firmware_source) ==
    [device_id |-> JI(dev), firmware |-> JS(firmware_source)]

\* the script is started with the command line argv
Invoked(argv) == [pc |-> "main", argv |-> argv, files |-> EmptyDict]

\* sys.exit(code), or the end of main (code 0)
Exited(run, code) == [run EXCEPT !.pc = "exit"] @@ [status |-> code]

scriptFrame == << mgrVars, serial_ports, stats, ser, hpc, cancelled,
                 handlerLocals, wire, now, supVars, stdin_readers >>

\* lines 76-101: the command line is checked as a whole before
\* trigger_ota_multi is called
main ==
    /\ script.pc = "main"
    /\ LET argv == script.argv
           args == SubSeq(argv, 3, Len(argv))
           parsed == [i \in DOMAIN args |-> ArgInt(args[i])]
           device_ids == [i \in DOMAIN args |-> parsed[i].n]
       IN script' =
            IF Len(argv) < 3 THEN Exited(script, 1)
            ELSE IF \E i \in DOMAIN args : ~parsed[i].ok
            THEN Exited(script, 1)
            ELSE IF invalid_ids(device_ids) # << >> THEN Exited(script, 1)
            ELSE IF Duplicated(device_ids) THEN Exited(script, 1)
            ELSE [pc |-> "loop", argv |-> argv, files |-> script.files,
                  firmware_source |-> argv[2], device_ids |-> device_ids,
                  success_count |-> 0]
    /\ UNCHANGED scriptFrame

\* lines 40-60: one pass of the loop; opened: whether open() and json.dump
\* succeed (a failure is caught at line 59 and the loop goes on).  After the
\* last pass main returns.
trigger_ota_multi(opened) ==
    /\ script.pc = "loop"
    /\ script.device_ids # << >>
    /\ LET dev == Head(script.device_ids)
           ota_file == OtaFileName(dev)
           written == [f \in DOMAIN script.files \cup {ota_file} |->
                          IF f = ota_file
                          THEN OtaFileContent(dev, script.firmware_source)
                          ELSE script.files[f]]
           rest == [script EXCEPT !.device_ids = Tail(@)]
           next == IF opened
                   THEN [rest EXCEPT !.files = written,
                                     !.success_count = @ + 1]
                   ELSE rest
       IN script' = IF next.device_ids = << >> THEN Exited(next, 0) ELSE next
    /\ UNCHANGED scriptFrame

(***************************************************************************)
(* SpecArgs: trigger_ota_multi.py is run once, with any command line of up *)
(* to MaxArgs device id arguments.                                         *)
(***************************************************************************)
InitArgs == InitManager /\ \E argv \in ArgLists : script = Invoked(argv)

NextArgs ==
    \/ main
    \/ \E opened \in BOOLEAN : trigger_ota_multi(opened)

SpecArgs == InitArgs /\ [][NextArgs]_vars

(***************************************************************************)
(* C37: the command line of trigger_ota_multi.py is all-or-nothing.  When  *)
(* a device id argument is not a number, is outside 1..255 or gives an id  *)
(* that another argument gives too, the run ends with status 1 and has     *)
(* written no file; otherwise the run ends with status 0 and, when every   *)
(* file could be written, has written exactly one file per device id,      *)
(* esp_ota_command_<id>.json, holding that device_id and the firmware      *)
(* argument.  A run never writes a file that is not of that form.          *)
(***************************************************************************)
IdsOf(argv) == SubSeq(argv, 3, Len(argv))

Numeric(arg) == arg \in {"7", "07", "8", "0", "255", "256"}

InRange(arg) == ArgInt(arg).n >= 1 /\ ArgInt(arg).n <= 255

Repeated(argv) ==
    \E i, j \in DOMAIN IdsOf(argv) :
        i # j /\ ArgInt(IdsOf(argv)[i]).n = ArgInt(IdsOf(argv)[j]).n

Rejected(argv) ==
    \/ \E i \in DOMAIN IdsOf(argv) :
          ~Numeric(IdsOf(argv)[i]) \/ ~InRange(IdsOf(argv)[i])
    \/ Repeated(argv)

ExpectedFiles(argv) ==
    { [name |-> OtaFileName(ArgInt(IdsOf(argv)[i]).n),
       content |-> OtaFileContent(ArgInt(IdsOf(argv)[i]).n, argv[2])] :
         i \in DOMAIN IdsOf(argv) }

WrittenFiles == { [name |-> f, content |-> script.files[f]] :
                    f \in DOMAIN script.files }

ShutDown == ~running

AllFinished == \A p \in Ports : ~Live(p)

C38_ShutdownLeavesNothingBehind ==
    /\ [](ShutDown
          => /\ spc = "stopped"
             /\ \A p \in Ports : Live(p) => cancelled[p]
             /\ \A p \in Ports : ser[p] # "open"
             /\ AllFinished => serial_ports = << >>)
    /\ [][ShutDown
          => /\ ~running'
             /\ \A p \in Ports : hpc'[p] = "opening" => hpc[p] = "opening"]_vars

\* shutdown has run while the handlers of both ports were reading, and both
\* have finished since
C38_Witness ==
    /\ ShutDown
    /\ AllFinished
    /\ \A p \in Ports : ser[p] = "closed" /\ hpc[p] = "done"
    /\ serial_ports = << >>
    /\ active_devices = Ports

=============================================================================
